---------------------------- MODULE Spec2Model ----------------------------
(***************************************************************************)
(* Twine compiler (cooper-ross/twine): the driver's pipeline               *)
(*     source -> Lexer::tokenize -> Parser::parse -> CodeGenerator::generate*)
(*            -> CodeGenerator::writeIRToFile                              *)
(* and the run-time dispatch sequences the emitted IR contains.            *)
(*                                                                         *)
(* A source text is a TLA+ string; a character is a string of length one   *)
(* and the empty string stands for the NUL that Lexer::peek and            *)
(* Lexer::advance return past the end of the source.                       *)
(***************************************************************************)
EXTENDS Integers, Sequences, FiniteSets, TLC

VARIABLES
    pc,         \* position of main() in the pipeline
    source,     \* the text read from the input file
    tokens,     \* std::vector<Token> returned by Lexer::tokenize
    parser,     \* the Parser object and parseProgram's locals
    ast,        \* std::unique_ptr<Program> returned by Parser::parse
    cg,         \* the CodeGenerator object
    stmtIndex,  \* visit(Program*): the next top-level statement to emit
    genResult,  \* what CodeGenerator::generate returned
    irFile,     \* whether <base>.ll was written
    exitCode,   \* the status main() returned
    rt,         \* a run of an emitted dispatch sequence on one value
    lexer       \* the Lexer object

vars == <<pc, source, tokens, parser, ast, cg, stmtIndex, genResult, irFile, exitCode, rt,
          lexer>>

(***************************************************************************)
(* Bounds of the model.                                                    *)
(***************************************************************************)
\* most statements snippets concatenated into one source text
MaxStmts == 2
\* largest number a boxed double holds in a run of the emitted code
MaxBoxed == 130
\* most characters of a text the lexer is run on
MaxChars == 3
\* most words of a text the parser is run on
MaxWords == 3
\* most binary operators of an expression the parser is run on
MaxOps == 2
\* most elements of an array len and append are run on
MaxElements == 2

(***************************************************************************)
(* Lexer (src/src/lexer.cpp)                                               *)
(***************************************************************************)
NUL == ""

Digits == {"0", "1", "2", "3", "4", "5", "6", "7", "8", "9"}

Letters ==
    {"a", "b", "c", "d", "e", "f", "g", "h", "i", "j", "k", "l", "m",
     "n", "o", "p", "q", "r", "s", "t", "u", "v", "w", "x", "y", "z",
     "A", "B", "C", "D", "E", "F", "G", "H", "I", "J", "K", "L", "M",
     "N", "O", "P", "Q", "R", "S", "T", "U", "V", "W", "X", "Y", "Z"}

isDigit(c) == c \in Digits

isAlpha(c) == c \in Letters \/ c = "_" \/ c = "$"

isAlphaNumeric(c) == isAlpha(c) \/ isDigit(c)

keywords ==
    [w \in {"let", "var", "const", "function", "if", "else", "while", "for",
            "return", "true", "false", "null"} |->
        CASE w = "let" -> "LET"
          [] w = "var" -> "VAR"
          [] w = "const" -> "CONST"
          [] w = "function" -> "FUNCTION"
          [] w = "if" -> "IF"
          [] w = "else" -> "ELSE"
          [] w = "while" -> "WHILE"
          [] w = "for" -> "FOR"
          [] w = "return" -> "RETURN"
          [] w = "true" -> "TRUE"
          [] w = "false" -> "FALSE"
          [] w = "null" -> "NULL_TOKEN"]

Token(t, v, l, c) == [type |-> t, value |-> v, line |-> l, column |-> c]

\* the Lexer object after construction: current is a 0-based offset
LexerInit == [current |-> 0, line |-> 1, column |-> 1, errors |-> 0]

LexIsAtEnd(s, lx) == lx.current >= Len(s)

LexPeek(s, lx, offset) ==
    LET pos == lx.current + offset
    IN  IF pos >= Len(s) THEN NUL ELSE SubSeq(s, pos + 1, pos + 1)

\* an advance that does not start a new line at a line feed
LexAdvanceSameLine(s, lx) ==
    IF LexIsAtEnd(s, lx) THEN lx
    ELSE [lx EXCEPT !.current = @ + 1, !.column = @ + 1]

\* Lexer::advance
LexAdvance(s, lx) ==
    IF LexIsAtEnd(s, lx) THEN lx
    ELSE IF LexPeek(s, lx, 0) = "\n"
         THEN [lx EXCEPT !.current = @ + 1, !.line = @ + 1, !.column = 1]
         ELSE [lx EXCEPT !.current = @ + 1, !.column = @ + 1]

\* Lexer::error writes a diagnostic; the model counts them
LexError(lx) == [lx EXCEPT !.errors = @ + 1]

RECURSIVE AdvanceWhileDigit(_, _)
AdvanceWhileDigit(s, lx) ==
    IF isDigit(LexPeek(s, lx, 0)) THEN AdvanceWhileDigit(s, LexAdvance(s, lx)) ELSE lx

RECURSIVE AdvanceWhileAlphaNumeric(_, _)
AdvanceWhileAlphaNumeric(s, lx) ==
    IF isAlphaNumeric(LexPeek(s, lx, 0))
    THEN AdvanceWhileAlphaNumeric(s, LexAdvance(s, lx))
    ELSE lx

scanNumber(s, lx) ==
    LET l1 == AdvanceWhileDigit(s, LexAdvance(s, lx))
        l2 == IF LexPeek(s, l1, 0) = "." /\ isDigit(LexPeek(s, l1, 1))
              THEN AdvanceWhileDigit(s, LexAdvance(s, l1))
              ELSE l1
    IN  [lx  |-> l2,
         tok |-> Token("NUMBER", SubSeq(s, lx.current + 1, l2.current),
                       lx.line, lx.column)]

\* the character an escape sequence \X stands for
Unescape(next) ==
    CASE next = "n" -> "\n"
      [] next = "t" -> "\t"
      [] next = "r" -> "\r"
      [] OTHER -> next

RECURSIVE ScanStringBody(_, _, _, _)
ScanStringBody(s, lx, quote, value) ==
    IF LexPeek(s, lx, 0) # quote /\ ~LexIsAtEnd(s, lx)
    THEN IF LexPeek(s, lx, 0) = "\\"
         THEN LET l1 == LexAdvance(s, lx)
                  next == LexPeek(s, l1, 0)
              IN  ScanStringBody(s, LexAdvance(s, l1), quote, value \o Unescape(next))
         ELSE ScanStringBody(s, LexAdvance(s, lx), quote, value \o LexPeek(s, lx, 0))
    ELSE [lx |-> lx, value |-> value]

scanString(s, lx) ==
    LET quote == LexPeek(s, lx, 0)
        body  == ScanStringBody(s, LexAdvance(s, lx), quote, "")
    IN  IF LexIsAtEnd(s, body.lx)
        THEN [lx  |-> LexError(body.lx),
              tok |-> Token("UNKNOWN", "", lx.line, lx.column)]
        ELSE [lx  |-> LexAdvance(s, body.lx),
              tok |-> Token("STRING", body.value, lx.line, lx.column)]

scanIdentifier(s, lx) ==
    LET l1 == AdvanceWhileAlphaNumeric(s, LexAdvance(s, lx))
        value == SubSeq(s, lx.current + 1, l1.current)
        type == IF value \in DOMAIN keywords THEN keywords[value] ELSE "IDENTIFIER"
    IN  [lx |-> l1, tok |-> Token(type, value, lx.line, lx.column)]

RECURSIVE skipWhitespace(_, _)
skipWhitespace(s, lx) ==
    IF LexPeek(s, lx, 0) \in {" ", "\t", "\r", "\n"}
    THEN skipWhitespace(s, LexAdvance(s, lx))
    ELSE lx

\* a line comment that is not skipped
skipLineCommentNot(s, lx) == lx

RECURSIVE skipLineComment(_, _)
skipLineComment(s, lx) ==
    IF LexPeek(s, lx, 0) # "\n" /\ ~LexIsAtEnd(s, lx)
    THEN skipLineComment(s, LexAdvance(s, lx))
    ELSE lx

\* a block comment that runs to the last byte of the source
RECURSIVE skipBlockCommentToEnd(_, _)
skipBlockCommentToEnd(s, lx) ==
    IF LexIsAtEnd(s, lx) THEN lx ELSE skipBlockCommentToEnd(s, LexAdvance(s, lx))

RECURSIVE skipBlockComment(_, _)
skipBlockComment(s, lx) ==
    IF LexIsAtEnd(s, lx) THEN LexError(lx)
    ELSE IF LexPeek(s, lx, 0) = "*" /\ LexPeek(s, lx, 1) = "/"
         THEN LexAdvance(s, LexAdvance(s, lx))
         ELSE skipBlockComment(s, LexAdvance(s, lx))

\* the token kind of a one-character operator or punctuation mark
SingleCharType ==
    [c \in {"+", "-", "*", "%", ";", ",", ".", "(", ")", "{", "}", "[", "]"} |->
        CASE c = "+" -> "PLUS"
          [] c = "-" -> "MINUS"
          [] c = "*" -> "MULTIPLY"
          [] c = "%" -> "MODULO"
          [] c = ";" -> "SEMICOLON"
          [] c = "," -> "COMMA"
          [] c = "." -> "DOT"
          [] c = "(" -> "LEFT_PAREN"
          [] c = ")" -> "RIGHT_PAREN"
          [] c = "{" -> "LEFT_BRACE"
          [] c = "}" -> "RIGHT_BRACE"
          [] c = "[" -> "LEFT_BRACKET"
          [] c = "]" -> "RIGHT_BRACKET"]

\* `c` optionally followed by `=`: = ==, ! !=, < <=, > >=
WithEquals ==
    [c \in {"=", "!", "<", ">"} |->
        CASE c = "=" -> <<"ASSIGN", "EQUAL">>
          [] c = "!" -> <<"LOGICAL_NOT", "NOT_EQUAL">>
          [] c = "<" -> <<"LESS_THAN", "LESS_EQUAL">>
          [] c = ">" -> <<"GREATER_THAN", "GREATER_EQUAL">>]

RECURSIVE nextToken(_, _)
nextToken(s, lx0) ==
    LET lx == skipWhitespace(s, lx0)
        c  == LexPeek(s, lx, 0)
        l1 == LexAdvance(s, lx)
        unknown == [lx  |-> LexError(l1),
                    tok |-> Token("UNKNOWN", c, lx.line, lx.column)]
    IN  IF LexIsAtEnd(s, lx)
        THEN [lx |-> lx, tok |-> Token("END_OF_FILE", "", lx.line, lx.column)]
        ELSE CASE isDigit(c) -> scanNumber(s, lx)
               [] isAlpha(c) -> scanIdentifier(s, lx)
               [] c \in DOMAIN WithEquals ->
                    IF LexPeek(s, l1, 0) = "="
                    THEN [lx  |-> LexAdvance(s, l1),
                          tok |-> Token(WithEquals[c][2], c \o "=", lx.line, lx.column)]
                    ELSE [lx  |-> l1,
                          tok |-> Token(WithEquals[c][1], c, lx.line, lx.column)]
               [] c = "&" ->
                    IF LexPeek(s, l1, 0) = "&"
                    THEN [lx  |-> LexAdvance(s, l1),
                          tok |-> Token("LOGICAL_AND", "&&", lx.line, lx.column)]
                    ELSE unknown
               [] c = "|" ->
                    IF LexPeek(s, l1, 0) = "|"
                    THEN [lx  |-> LexAdvance(s, l1),
                          tok |-> Token("LOGICAL_OR", "||", lx.line, lx.column)]
                    ELSE unknown
               [] c = "/" ->
                    IF LexPeek(s, l1, 0) = "/"
                    THEN nextToken(s, skipLineComment(s, l1))
                    ELSE IF LexPeek(s, l1, 0) = "*"
                         THEN nextToken(s, skipBlockComment(s, LexAdvance(s, l1)))
                         ELSE [lx  |-> l1,
                               tok |-> Token("DIVIDE", "/", lx.line, lx.column)]
               [] c \in DOMAIN SingleCharType ->
                    [lx |-> l1, tok |-> Token(SingleCharType[c], c, lx.line, lx.column)]
               [] c \in {"\"", "'"} -> scanString(s, lx)
               [] OTHER -> unknown

RECURSIVE TokenizeFrom(_, _, _)
TokenizeFrom(s, lx, toks) ==
    LET r == nextToken(s, lx)
    IN  IF r.tok.type = "END_OF_FILE"
        THEN Append(toks, r.tok)
        ELSE TokenizeFrom(s, r.lx, Append(toks, r.tok))

tokenize(s) == TokenizeFrom(s, LexerInit, <<>>)

(***************************************************************************)
(* AST (src/include/lexer.h, the ast.h part).  A node is a record whose    *)
(* field k names its class.                                                *)
(***************************************************************************)
NoNode == [k |-> "None"]

NumberLiteral(v) == [k |-> "NumberLiteral", value |-> v]
StringLiteral(v) == [k |-> "StringLiteral", value |-> v]
BooleanLiteral(v) == [k |-> "BooleanLiteral", value |-> v]
NullLiteral == [k |-> "NullLiteral"]
Identifier(n) == [k |-> "Identifier", name |-> n]
BinaryExpression(l, o, r) == [k |-> "BinaryExpression", left |-> l, op |-> o, right |-> r]
UnaryExpression(o, e) == [k |-> "UnaryExpression", op |-> o, operand |-> e]
AssignmentExpression(n, v) == [k |-> "AssignmentExpression", name |-> n, value |-> v]
CallExpression(n, args) == [k |-> "CallExpression", name |-> n, arguments |-> args]
ArrayLiteral(elems) == [k |-> "ArrayLiteral", elements |-> elems]
IndexExpression(a, i) == [k |-> "IndexExpression", array |-> a, index |-> i]
IndexAssignmentExpression(a, i, v) ==
    [k |-> "IndexAssignmentExpression", array |-> a, index |-> i, value |-> v]

ExpressionStatement(e) == [k |-> "ExpressionStatement", expression |-> e]
VariableDeclaration(kind, n, init) ==
    [k |-> "VariableDeclaration", kind |-> kind, name |-> n, initializer |-> init]
BlockStatement(stmts) == [k |-> "BlockStatement", statements |-> stmts]
IfStatement(c, t, e) ==
    [k |-> "IfStatement", condition |-> c, thenStatement |-> t, elseStatement |-> e]
WhileStatement(c, b) == [k |-> "WhileStatement", condition |-> c, body |-> b]
ForStatement(i, c, u, b) ==
    [k |-> "ForStatement", init |-> i, condition |-> c, update |-> u, body |-> b]
ReturnStatement(v) == [k |-> "ReturnStatement", value |-> v]
FunctionDeclaration(n, params, b) ==
    [k |-> "FunctionDeclaration", name |-> n, parameters |-> params, body |-> b]

Program(stmts) == [k |-> "Program", statements |-> stmts]

\* the null std::unique_ptr<Program>
NoProgram == [k |-> "None", statements |-> <<>>]

(***************************************************************************)
(* Parser (src/src/lexer.cpp, the parser.cpp part).  The cursor `current`  *)
(* is a 0-based index into the token vector t.  A parse function returns   *)
(*   [thrown, node, cur, diags]                                            *)
(* where thrown says that a ParseError is propagating and diags lists the  *)
(* diagnostics reportError has written so far.                             *)
(***************************************************************************)
PPeek(t, cur) == IF cur >= Len(t) THEN t[Len(t)] ELSE t[cur + 1]

PIsAtEnd(t, cur) == PPeek(t, cur).type = "END_OF_FILE"

PAdvance(t, cur) == IF ~PIsAtEnd(t, cur) THEN cur + 1 ELSE cur

check(t, cur, type) == ~PIsAtEnd(t, cur) /\ PPeek(t, cur).type = type

checkAny(t, cur, types) == ~PIsAtEnd(t, cur) /\ PPeek(t, cur).type \in types

Ok(node, cur, d) == [thrown |-> FALSE, node |-> node, cur |-> cur, diags |-> d]

\* Parser::error: report at token index `at` (0-based)
Report(d, at, message) == Append(d, [message |-> message, at |-> at])

Throw(cur, d, message) ==
    [thrown |-> TRUE, node |-> NoNode, cur |-> cur, diags |-> Report(d, cur, message)]

consume(t, cur, d, type, message) ==
    IF check(t, cur, type) THEN Ok(t[cur + 1], cur + 1, d) ELSE Throw(cur, d, message)

StatementKeywords ==
    {"FUNCTION", "VAR", "LET", "CONST", "FOR", "IF", "WHILE", "RETURN"}

RECURSIVE SynchronizeLoop(_, _)
SynchronizeLoop(t, cur) ==
    IF PIsAtEnd(t, cur) THEN cur
    ELSE IF t[cur].type = "SEMICOLON" THEN cur
    ELSE IF PPeek(t, cur).type \in StatementKeywords THEN cur
    ELSE SynchronizeLoop(t, PAdvance(t, cur))

\* a synchronize that returns where the ParseError was thrown
synchronizeStays(t, cur) == cur

\* Parser::synchronize: advance(), then the while (!isAtEnd()) loop
synchronize(t, cur) == SynchronizeLoop(t, PAdvance(t, cur))

DigitValue(c) ==
    CASE c = "0" -> 0 [] c = "1" -> 1 [] c = "2" -> 2 [] c = "3" -> 3 [] c = "4" -> 4
      [] c = "5" -> 5 [] c = "6" -> 6 [] c = "7" -> 7 [] c = "8" -> 8 [] c = "9" -> 9

\* std::stod of a NUMBER lexeme: the decimal mant / 10^scale, fraction
\* digits that are trailing zeros dropped
RECURSIVE StodFrom(_, _, _, _)
StodFrom(lexeme, i, mant, scale) ==
    IF i > Len(lexeme)
    THEN IF scale > 0 /\ mant % 10 = 0
         THEN StodFrom(lexeme, i, mant \div 10, scale - 1)
         ELSE [mant |-> mant, scale |-> IF scale < 0 THEN 0 ELSE scale]
    ELSE IF SubSeq(lexeme, i, i) = "."
         THEN StodFrom(lexeme, i + 1, mant, 0)
         ELSE StodFrom(lexeme, i + 1, mant * 10 + DigitValue(SubSeq(lexeme, i, i)),
                       IF scale < 0 THEN scale ELSE scale + 1)

stod(lexeme) == StodFrom(lexeme, 1, 0, -1)

\* the levels with + - binding more tightly than * / %
BinaryLevelOpsSwapped ==
    << {"LOGICAL_OR"},
       {"LOGICAL_AND"},
       {"EQUAL", "NOT_EQUAL"},
       {"GREATER_THAN", "GREATER_EQUAL", "LESS_THAN", "LESS_EQUAL"},
       {"MULTIPLY", "DIVIDE", "MODULO"},
       {"PLUS", "MINUS"} >>

\* binary operator levels of the grammar, lowest precedence first
BinaryLevelOps ==
    << {"LOGICAL_OR"},
       {"LOGICAL_AND"},
       {"EQUAL", "NOT_EQUAL"},
       {"GREATER_THAN", "GREATER_EQUAL", "LESS_THAN", "LESS_EQUAL"},
       {"PLUS", "MINUS"},
       {"MULTIPLY", "DIVIDE", "MODULO"} >>

\* Every grammar function reaches the grammar functions it calls through
\* Parse, which maps the name of a function (and the level of a binary
\* operator function) to its definition.
RECURSIVE Parse(_, _, _, _, _)

\* a ParseError thrown while r was computed propagates; otherwise the
\* function goes on with r
Then(r, Continue(_)) == IF r.thrown THEN r ELSE Continue(r)

parseExpression(t, cur, d) == Parse("parseAssignment", 0, t, cur, d)

parsePrimary(t, cur, d) ==
    CASE check(t, cur, "TRUE") -> Ok(BooleanLiteral(TRUE), cur + 1, d)
      [] check(t, cur, "FALSE") -> Ok(BooleanLiteral(FALSE), cur + 1, d)
      [] check(t, cur, "NULL_TOKEN") -> Ok(NullLiteral, cur + 1, d)
      [] check(t, cur, "NUMBER") -> Ok(NumberLiteral(stod(t[cur + 1].value)), cur + 1, d)
      [] check(t, cur, "STRING") -> Ok(StringLiteral(t[cur + 1].value), cur + 1, d)
      [] check(t, cur, "IDENTIFIER") -> Ok(Identifier(t[cur + 1].value), cur + 1, d)
      [] check(t, cur, "LEFT_PAREN") ->
            Then(Parse("parseExpression", 0, t, cur + 1, d), LAMBDA e:
            Then(consume(t, e.cur, e.diags, "RIGHT_PAREN", "Expected ')' after expression"),
                 LAMBDA c: Ok(e.node, c.cur, c.diags)))
      [] OTHER -> Throw(cur, d, "Expected expression")

RECURSIVE ArgumentLoop(_, _, _, _)
\* do { arguments.push_back(parseExpression()); } while (match(COMMA));
ArgumentLoop(t, cur, d, args) ==
    Then(Parse("parseExpression", 0, t, cur, d), LAMBDA e:
         IF check(t, e.cur, "COMMA")
         THEN ArgumentLoop(t, e.cur + 1, e.diags, Append(args, e.node))
         ELSE Ok(Append(args, e.node), e.cur, e.diags))

RECURSIVE CallLoop(_, _)
\* the while (true) loop of parseCall; r holds expr and the cursor
CallLoop(t, r) ==
    IF check(t, r.cur, "LEFT_PAREN")
    THEN IF r.node.k = "Identifier"
         THEN Then(IF ~check(t, r.cur + 1, "RIGHT_PAREN")
                   THEN ArgumentLoop(t, r.cur + 1, r.diags, <<>>)
                   ELSE Ok(<<>>, r.cur + 1, r.diags), LAMBDA args:
              Then(consume(t, args.cur, args.diags, "RIGHT_PAREN",
                           "Expected ')' after arguments"), LAMBDA c:
              CallLoop(t, Ok(CallExpression(r.node.name, args.node), c.cur, c.diags))))
         ELSE CallLoop(t, Ok(r.node, r.cur + 1,
                             Report(r.diags, r.cur, "Can only call functions")))
    ELSE r

parseCall(t, cur, d) ==
    Then(Parse("parsePrimary", 0, t, cur, d), LAMBDA p: CallLoop(t, p))

parseUnary(t, cur, d) ==
    IF checkAny(t, cur, {"LOGICAL_NOT", "MINUS"})
    THEN Then(Parse("parseUnary", 0, t, cur + 1, d), LAMBDA right:
              Ok(UnaryExpression(t[cur + 1].value, right.node), right.cur, right.diags))
    ELSE Parse("parseCall", 0, t, cur, d)

RECURSIVE BinaryLoop(_, _, _)
\* while (match(ops)) { right = operand(); expr = Binary(expr, op, right); }
BinaryLoop(t, lvl, r) ==
    IF checkAny(t, r.cur, BinaryLevelOps[lvl])
    THEN Then(Parse("parseBinaryLevel", lvl + 1, t, r.cur + 1, r.diags), LAMBDA right:
              BinaryLoop(t, lvl, Ok(BinaryExpression(r.node, t[r.cur + 1].value, right.node),
                                    right.cur, right.diags)))
    ELSE r

\* parseLogicalOr (1), parseLogicalAnd (2), parseEquality (3),
\* parseComparison (4), parseAddition (5), parseMultiplication (6)
parseBinaryLevel(t, lvl, cur, d) ==
    IF lvl > Len(BinaryLevelOps) THEN Parse("parseUnary", 0, t, cur, d)
    ELSE Then(Parse("parseBinaryLevel", lvl + 1, t, cur, d), LAMBDA left:
              BinaryLoop(t, lvl, left))

parseLogicalOr(t, cur, d) == Parse("parseBinaryLevel", 1, t, cur, d)

parseAssignment(t, cur, d) ==
    Then(Parse("parseLogicalOr", 0, t, cur, d), LAMBDA expr:
         IF check(t, expr.cur, "ASSIGN")
         THEN IF expr.node.k = "Identifier"
              THEN Then(Parse("parseAssignment", 0, t, expr.cur + 1, expr.diags),
                        LAMBDA value: Ok(AssignmentExpression(expr.node.name, value.node),
                                         value.cur, value.diags))
              ELSE Ok(expr.node, expr.cur + 1,
                      Report(expr.diags, expr.cur, "Invalid assignment target"))
         ELSE expr)

parseExpressionStatement(t, cur, d) ==
    Then(Parse("parseExpression", 0, t, cur, d), LAMBDA expr:
    Then(consume(t, expr.cur, expr.diags, "SEMICOLON", "Expected ';' after expression"),
         LAMBDA c: Ok(ExpressionStatement(expr.node), c.cur, c.diags)))

\* called with the cursor just behind the let / var / const keyword
parseVariableDeclaration(t, cur, d) ==
    Then(consume(t, cur, d, "IDENTIFIER", "Expected variable name"), LAMBDA name:
    Then(IF check(t, name.cur, "ASSIGN")
         THEN Parse("parseExpression", 0, t, name.cur + 1, name.diags)
         ELSE Ok(NoNode, name.cur, name.diags), LAMBDA init:
    Then(consume(t, init.cur, init.diags, "SEMICOLON",
                 "Expected ';' after variable declaration"), LAMBDA c:
    Ok(VariableDeclaration(t[cur].value, name.node.value, init.node), c.cur, c.diags))))

RECURSIVE BlockLoop(_, _, _, _)
\* while (!check(RIGHT_BRACE) && !isAtEnd()) statements.push_back(parseStatement());
BlockLoop(t, cur, d, stmts) ==
    IF ~check(t, cur, "RIGHT_BRACE") /\ ~PIsAtEnd(t, cur)
    THEN Then(Parse("parseStatement", 0, t, cur, d), LAMBDA s:
              BlockLoop(t, s.cur, s.diags, Append(stmts, s.node)))
    ELSE Ok(stmts, cur, d)

parseBlockStatement(t, cur, d) ==
    Then(BlockLoop(t, cur, d, <<>>), LAMBDA body:
    Then(consume(t, body.cur, body.diags, "RIGHT_BRACE", "Expected '}' after block"),
         LAMBDA c: Ok(BlockStatement(body.node), c.cur, c.diags)))

\* do { parameters.push_back(consume(IDENTIFIER)); } while (match(COMMA));
RECURSIVE ParameterLoop(_, _, _, _)
ParameterLoop(t, cur, d, params) ==
    Then(consume(t, cur, d, "IDENTIFIER", "Expected parameter name"), LAMBDA p:
         IF check(t, p.cur, "COMMA")
         THEN ParameterLoop(t, p.cur + 1, p.diags, Append(params, p.node.value))
         ELSE Ok(Append(params, p.node.value), p.cur, p.diags))

parseFunctionDeclaration(t, cur, d) ==
    Then(consume(t, cur, d, "IDENTIFIER", "Expected function name"), LAMBDA name:
    Then(consume(t, name.cur, name.diags, "LEFT_PAREN",
                 "Expected '(' after function name"), LAMBDA lp:
    Then(IF ~check(t, lp.cur, "RIGHT_PAREN")
         THEN ParameterLoop(t, lp.cur, lp.diags, <<>>)
         ELSE Ok(<<>>, lp.cur, lp.diags), LAMBDA params:
    Then(consume(t, params.cur, params.diags, "RIGHT_PAREN",
                 "Expected ')' after parameters"), LAMBDA rp:
    Then(consume(t, rp.cur, rp.diags, "LEFT_BRACE",
                 "Expected '{' before function body"), LAMBDA lb:
    Then(Parse("parseBlockStatement", 0, t, lb.cur, lb.diags), LAMBDA body:
    Ok(FunctionDeclaration(name.node.value, params.node, body.node),
       body.cur, body.diags)))))))

parseIfStatement(t, cur, d) ==
    Then(consume(t, cur, d, "LEFT_PAREN", "Expected '(' after 'if'"), LAMBDA lp:
    Then(Parse("parseExpression", 0, t, lp.cur, lp.diags), LAMBDA condition:
    Then(consume(t, condition.cur, condition.diags, "RIGHT_PAREN",
                 "Expected ')' after if condition"), LAMBDA rp:
    Then(Parse("parseStatement", 0, t, rp.cur, rp.diags), LAMBDA thenStatement:
    Then(IF check(t, thenStatement.cur, "ELSE")
         THEN Parse("parseStatement", 0, t, thenStatement.cur + 1, thenStatement.diags)
         ELSE Ok(NoNode, thenStatement.cur, thenStatement.diags), LAMBDA elseStatement:
    Ok(IfStatement(condition.node, thenStatement.node, elseStatement.node),
       elseStatement.cur, elseStatement.diags))))))

parseWhileStatement(t, cur, d) ==
    Then(consume(t, cur, d, "LEFT_PAREN", "Expected '(' after 'while'"), LAMBDA lp:
    Then(Parse("parseExpression", 0, t, lp.cur, lp.diags), LAMBDA condition:
    Then(consume(t, condition.cur, condition.diags, "RIGHT_PAREN",
                 "Expected ')' after while condition"), LAMBDA rp:
    Then(Parse("parseStatement", 0, t, rp.cur, rp.diags), LAMBDA body:
    Ok(WhileStatement(condition.node, body.node), body.cur, body.diags)))))

\* the initializer clause of a for statement
parseForInitializer(t, cur, d) ==
    IF check(t, cur, "SEMICOLON") THEN Ok(NoNode, cur + 1, d)
    ELSE IF checkAny(t, cur, {"VAR", "LET", "CONST"})
    THEN parseVariableDeclaration(t, cur + 1, d)
    ELSE Then(Parse("parseExpression", 0, t, cur, d), LAMBDA expr:
         Then(consume(t, expr.cur, expr.diags, "SEMICOLON",
                      "Expected ';' after for loop initializer"), LAMBDA c:
         Ok(ExpressionStatement(expr.node), c.cur, c.diags)))

parseForStatement(t, cur, d) ==
    Then(consume(t, cur, d, "LEFT_PAREN", "Expected '(' after 'for'"), LAMBDA lp:
    Then(parseForInitializer(t, lp.cur, lp.diags), LAMBDA init:
    Then(IF ~check(t, init.cur, "SEMICOLON")
         THEN Parse("parseExpression", 0, t, init.cur, init.diags)
         ELSE Ok(NoNode, init.cur, init.diags), LAMBDA condition:
    Then(consume(t, condition.cur, condition.diags, "SEMICOLON",
                 "Expected ';' after for loop condition"), LAMBDA semi:
    Then(IF ~check(t, semi.cur, "RIGHT_PAREN")
         THEN Parse("parseExpression", 0, t, semi.cur, semi.diags)
         ELSE Ok(NoNode, semi.cur, semi.diags), LAMBDA update:
    Then(consume(t, update.cur, update.diags, "RIGHT_PAREN",
                 "Expected ')' after for clauses"), LAMBDA rp:
    Then(Parse("parseStatement", 0, t, rp.cur, rp.diags), LAMBDA body:
    Ok(ForStatement(init.node, condition.node, update.node, body.node),
       body.cur, body.diags))))))))

parseReturnStatement(t, cur, d) ==
    Then(IF ~check(t, cur, "SEMICOLON")
         THEN Parse("parseExpression", 0, t, cur, d)
         ELSE Ok(NoNode, cur, d), LAMBDA value:
    Then(consume(t, value.cur, value.diags, "SEMICOLON",
                 "Expected ';' after return value"), LAMBDA c:
    Ok(ReturnStatement(value.node), c.cur, c.diags)))

parseStatement(t, cur, d) ==
    CASE check(t, cur, "FUNCTION") -> parseFunctionDeclaration(t, cur + 1, d)
      [] checkAny(t, cur, {"VAR", "LET", "CONST"}) ->
            parseVariableDeclaration(t, cur + 1, d)
      [] check(t, cur, "IF") -> parseIfStatement(t, cur + 1, d)
      [] check(t, cur, "WHILE") -> parseWhileStatement(t, cur + 1, d)
      [] check(t, cur, "FOR") -> parseForStatement(t, cur + 1, d)
      [] check(t, cur, "RETURN") -> parseReturnStatement(t, cur + 1, d)
      [] check(t, cur, "LEFT_BRACE") -> Parse("parseBlockStatement", 0, t, cur + 1, d)
      [] OTHER -> parseExpressionStatement(t, cur, d)

Parse(rule, lvl, t, cur, d) ==
    CASE rule = "parseExpression" -> parseExpression(t, cur, d)
      [] rule = "parseAssignment" -> parseAssignment(t, cur, d)
      [] rule = "parseLogicalOr" -> parseLogicalOr(t, cur, d)
      [] rule = "parseBinaryLevel" -> parseBinaryLevel(t, lvl, cur, d)
      [] rule = "parseUnary" -> parseUnary(t, cur, d)
      [] rule = "parseCall" -> parseCall(t, cur, d)
      [] rule = "parsePrimary" -> parsePrimary(t, cur, d)
      [] rule = "parseStatement" -> parseStatement(t, cur, d)
      [] rule = "parseBlockStatement" -> parseBlockStatement(t, cur, d)

\* the Parser object after construction, with parseProgram's local vector;
\* recoveries is a history variable: for every call of synchronize the
\* cursor when the ParseError was thrown and the cursor it returned with
ParserInit == [current |-> 0, statements |-> <<>>, diags |-> <<>>, recoveries |-> <<>>]

(***************************************************************************)
(* IR emitter (src/src/codegen.cpp).                                       *)
(*                                                                         *)
(* The CodeGenerator object is a record.  Its llvm::Module is the three    *)
(* sequences fns (functions), blocks (basic blocks, each with the          *)
(* instructions appended to it) and slots (alloca instructions); an        *)
(* llvm::Function*, llvm::BasicBlock* or llvm::AllocaInst* is an index     *)
(* into them and 0 is the null pointer.  An llvm::Value* is a record       *)
(*   [ty, const, prov]                                                     *)
(* of its IR type, whether it is an llvm::Constant (the IRBuilder folds    *)
(* operations on constants and emits no instruction for them) and, for a   *)
(* pointer, the storage it refers to.                                      *)
(*                                                                         *)
(* An exception in flight is the field err; every visit function returns   *)
(* the state unchanged while one is propagating.  ub records that the      *)
(* emitter itself executed undefined behaviour (std::stack::top on an      *)
(* empty stack).                                                           *)
(*                                                                         *)
(* The fields lexStack, declared, lastSet and accesses are history         *)
(* variables: they record the block structure of the program being         *)
(* emitted and every variable lookup, and the code never reads them.       *)
(***************************************************************************)
EmptyMap == [x \in {} |-> 0]

MapPut(f, key, v) == [x \in DOMAIN f \cup {key} |-> IF x = key THEN v ELSE f[x]]

MapRemove(f, key) == [x \in DOMAIN f \ {key} |-> f[x]]

Last(seq) == seq[Len(seq)]

Front(seq) == SubSeq(seq, 1, Len(seq) - 1)

NoError == [kind |-> "none", name |-> ""]

Value(ty, const, prov) == [ty |-> ty, const |-> const, prov |-> prov]

\* what reading the top of an empty std::stack yields
Garbage == Value("garbage", FALSE, "garbage")

IntegerTypes == {"i1", "i32", "i64"}

Terminators == {"ret", "br", "condbr"}

Instr(op, ty, slot, name, bad) ==
    [op |-> op, ty |-> ty, slot |-> slot, name |-> name, bad |-> bad]

Fn(name, linkage, ret, params, vararg) ==
    [name |-> name, linkage |-> linkage, ret |-> ret, params |-> params,
     vararg |-> vararg, entry |-> 0, erased |-> FALSE]

\* the functions declareBuiltinFunctions enters in the function table, in
\* the order of their table keys
BuiltinFns ==
    << Fn("print", "External", "void", <<"ptr">>, TRUE),
       Fn("input", "External", "ptr", <<>>, FALSE),
       Fn("str", "External", "ptr", <<"f64">>, FALSE),
       Fn("num", "External", "f64", <<"ptr">>, FALSE),
       Fn("int", "External", "f64", <<"ptr">>, FALSE),
       Fn("abs", "External", "f64", <<"f64">>, FALSE),
       Fn("round", "External", "f64", <<"f64">>, TRUE),
       Fn("min", "External", "f64", <<"f64", "f64">>, TRUE),
       Fn("max", "External", "f64", <<"f64", "f64">>, TRUE),
       Fn("pow", "External", "f64", <<"f64", "f64">>, FALSE),
       Fn("sqrt", "External", "f64", <<"f64">>, FALSE),
       Fn("random", "External", "f64", <<>>, FALSE),
       Fn("printf", "External", "i32", <<"ptr">>, TRUE),
       Fn("scanf", "External", "i32", <<"ptr">>, TRUE),
       Fn("fgets", "External", "ptr", <<"ptr", "i32", "ptr">>, FALSE),
       Fn("snprintf", "External", "i32", <<"ptr", "i64", "ptr">>, TRUE),
       Fn("atof", "External", "f64", <<"ptr">>, FALSE),
       Fn("atoi", "External", "i32", <<"ptr">>, FALSE),
       Fn("fabs", "External", "f64", <<"f64">>, FALSE),
       Fn("mathRound", "External", "f64", <<"f64">>, FALSE),
       Fn("mathPow", "External", "f64", <<"f64", "f64">>, FALSE),
       Fn("mathSqrt", "External", "f64", <<"f64">>, FALSE),
       Fn("rand", "External", "i32", <<>>, FALSE),
       Fn("srand", "External", "void", <<"i32">>, FALSE) >>

\* the callee names visit(CallExpression*) lowers inline
InlineBuiltins ==
    {"input", "str", "num", "int", "abs", "round", "min", "max", "pow", "sqrt",
     "random", "len", "upper", "lower", "includes", "replace", "append", "print"}

\* CodeGenerator::CodeGenerator: the global scope is pushed and the
\* built-ins are declared
CodeGeneratorInit ==
    [symbolTables |-> << [id |-> 1, vars |-> EmptyMap] >>,
     functions |-> [n \in {BuiltinFns[i].name : i \in DOMAIN BuiltinFns} |->
                        CHOOSE i \in DOMAIN BuiltinFns : BuiltinFns[i].name = n],
     fns |-> BuiltinFns,
     blocks |-> <<>>,
     slots |-> <<>>,
     currentFunction |-> 0,
     insertBlock |-> 0,
     valueStack |-> <<>>,
     err |-> NoError,
     cerr |-> <<>>,
     ub |-> FALSE,
     underflow |-> FALSE,
     stored |-> {},
     unstoredLoads |-> {},
     returned |-> {},
     scopeCount |-> 1,
     lexStack |-> <<1>>,
     declared |-> {},
     lastSet |-> EmptyMap,
     accesses |-> <<>>,
     blockExits |-> <<>>,
     functionExits |-> <<>>]

Stopped(st) == st.err.kind # "none" \/ st.ub

throw(st, kind, name) == [st EXCEPT !.err = [kind |-> kind, name |-> name]]

\* std::cerr << "Error: ..." followed by a plain return
ReportError(st, kind, name) == [st EXCEPT !.cerr = Append(@, [kind |-> kind, name |-> name])]

pushScope(st) ==
    [st EXCEPT !.symbolTables = Append(@, [id |-> st.scopeCount + 1, vars |-> EmptyMap]),
               !.scopeCount = @ + 1]

\* a popScope that leaves the scope on the stack
popScopeKeeps(st) == st

popScope(st) ==
    IF st.symbolTables # <<>> THEN [st EXCEPT !.symbolTables = Front(@)] ELSE st

\* history: a Block or a function body begins / ends in the program text
EnterLexicalScope(st) == [st EXCEPT !.lexStack = Append(@, st.scopeCount + 1)]

LeaveLexicalScope(st) ==
    [st EXCEPT !.lexStack = Front(@),
               !.lastSet = [n \in {m \in DOMAIN @ : @[m].depth < Len(st.lexStack)} |-> @[n]]]

\* history: the program text declares `name` in the block being emitted
NoteDeclared(st, name) ==
    [st EXCEPT !.declared = @ \cup {<<Last(st.lexStack), name>>},
               !.lastSet = MapRemove(@, name)]

\* history: setVariable(name, value) was called
NoteSet(st, name, value) ==
    [st EXCEPT !.lastSet = MapPut(@, name, [ty |-> value.ty, depth |-> Len(st.lexStack)])]

\* history: a lookup of `name` ended in the scope `scope` (0: in none) on a
\* slot of type ty; cands are the open blocks whose text declares the name,
\* ended the closed ones, expect the type of the value last assigned to it
NoteAccess(st, kind, name, scope, ty) ==
    [st EXCEPT !.accesses = Append(@,
        [kind |-> kind, name |-> name, scope |-> scope, ty |-> ty,
         cands |-> {id \in {st.lexStack[i] : i \in DOMAIN st.lexStack} :
                        <<id, name>> \in st.declared},
         ended |-> {d[1] : d \in {e \in st.declared : e[2] = name}}
                   \ {st.lexStack[i] : i \in DOMAIN st.lexStack},
         expect |-> IF name \in DOMAIN st.lastSet THEN st.lastSet[name].ty ELSE "any"])]

\* builder->Create...: append an instruction at the insertion point.
\* History: stored holds the slots a store to which lies on every path from
\* the entry of the function to the insertion point, unstoredLoads the loads
\* emitted where their slot is not among them
Emit(st, ins) ==
    [st EXCEPT !.blocks[st.insertBlock].instrs = Append(@, ins),
               !.stored = IF ins.op = "store" THEN @ \cup {ins.slot} ELSE @,
               !.unstoredLoads =
                   IF ins.op = "load" /\ ins.slot \notin st.stored
                   THEN @ \cup {[slot |-> ins.slot, block |-> st.insertBlock]}
                   ELSE @]

\* history: the insertion point moves to a block reached with the slots
\* `slots` stored on every path
WithStored(st, slots) == [st EXCEPT !.stored = slots]

\* history: the block emitted last ends in a branch to the block that follows
\* the statement (and not in a return)
Falls(st) ==
    st.blocks[st.insertBlock].instrs # <<>>
        /\ st.blocks[st.insertBlock].instrs[Len(st.blocks[st.insertBlock].instrs)].op = "br"

\* history: the slots stored on every one of the paths that reach a merge
\* block; a block no path reaches has every slot stored
Joined(st, paths) ==
    WithStored(st, IF paths = {} THEN DOMAIN st.slots
                   ELSE {s \in UNION paths : \A path \in paths : s \in path})

\* an instruction the IRBuilder folds away when every operand is constant
EmitOp(st, operandsConst, bad) ==
    IF operandsConst /\ ~bad THEN st ELSE Emit(st, Instr("op", "", 0, "", bad))

\* llvm::BasicBlock::Create(context, label, fn): the new block is
\* Len(st.blocks) + 1
CreateBlock(st, fn, label) ==
    [st EXCEPT !.blocks = Append(@, [fn |-> fn, label |-> label, instrs |-> <<>>]),
               !.fns[fn].entry = IF @ = 0 THEN Len(st.blocks) + 1 ELSE @]

SetInsertPoint(st, b) == [st EXCEPT !.insertBlock = b]

\* llvm::BasicBlock::getTerminator: the last instruction if it is a terminator
getTerminator(st, b) ==
    st.blocks[b].instrs # <<>> /\ Last(st.blocks[b].instrs).op \in Terminators

\* the new alloca is Len(st.slots) + 1, inserted at the head of fn's entry block
createEntryBlockAlloca(st, fn, varName, ty) ==
    LET entry == st.fns[fn].entry
        slot  == Len(st.slots) + 1
    IN  [st EXCEPT !.slots = Append(@, [fn |-> fn, name |-> varName, ty |-> ty,
                                        block |-> entry]),
                   !.blocks[entry].instrs = <<Instr("alloca", ty, slot, varName, FALSE)>> \o @]

\* builder->CreateAlloca: the alloca is appended at the insertion point
CreateAlloca(st, varName, ty) ==
    LET slot == Len(st.slots) + 1
    IN  Emit([st EXCEPT !.slots = Append(@, [fn |-> st.blocks[st.insertBlock].fn,
                                             name |-> varName, ty |-> ty,
                                             block |-> st.insertBlock])],
             Instr("alloca", ty, slot, varName, FALSE))

\* index of the innermost scope that holds name, 0 if none does
RECURSIVE FindScope(_, _, _)
FindScope(tables, i, name) ==
    IF i = 0 THEN 0
    ELSE IF name \in DOMAIN tables[i].vars THEN i
    ELSE FindScope(tables, i - 1, name)

\* a value computed once and used by the statements that follow
Let(x, In(_)) == In(x)

\* returns [st, found, v]
getVariable(st, name) ==
    Let(FindScope(st.symbolTables, Len(st.symbolTables), name), LAMBDA i:
        IF i = 0
        THEN [st |-> NoteAccess(st, "load", name, 0, "none"), found |-> FALSE, v |-> Garbage]
        ELSE Let(st.symbolTables[i].vars[name], LAMBDA slot:
             Let(st.slots[slot].ty, LAMBDA ty:
                 [st |-> Emit(NoteAccess(st, "load", name, st.symbolTables[i].id, ty),
                              Instr("load", ty, slot, name, FALSE)),
                  found |-> TRUE,
                  v |-> Value(ty, FALSE, "load")])))

\* a setVariable that stores into the existing slot whatever its type
SetExistingInPlace(st, i, name, value) ==
    Emit(NoteAccess(NoteSet(st, name, value), "store", name, st.symbolTables[i].id, value.ty),
         Instr("store", value.ty, st.symbolTables[i].vars[name], name, FALSE))

\* the branch of setVariable for a name that scope i holds
SetExisting(st, i, name, value) ==
    Let(st.symbolTables[i].vars[name], LAMBDA slot:
    Let(NoteAccess(NoteSet(st, name, value), "store", name, st.symbolTables[i].id, value.ty),
        LAMBDA s1:
        IF value.ty = st.slots[slot].ty
        THEN Emit(s1, Instr("store", value.ty, slot, name, FALSE))
        ELSE Let(createEntryBlockAlloca(s1, st.currentFunction, name \o "_new", value.ty),
                 LAMBDA s2:
                 [Emit(s2, Instr("store", value.ty, Len(s2.slots), name, FALSE))
                    EXCEPT !.symbolTables[i].vars[name] = Len(s2.slots)])))

\* the branch of setVariable for a name that no scope holds
SetNew(st, name, value) ==
    IF st.currentFunction # 0
    THEN Let(createEntryBlockAlloca(NoteDeclared(st, name), st.currentFunction, name,
                                    value.ty), LAMBDA s1:
             [Emit(NoteSet(s1, name, value),
                   Instr("store", value.ty, Len(s1.slots), name, FALSE))
                EXCEPT !.symbolTables[Len(st.symbolTables)].vars =
                           MapPut(@, name, Len(s1.slots))])
    ELSE NoteSet(st, name, value)

setVariable(st, name, value) ==
    Let(FindScope(st.symbolTables, Len(st.symbolTables), name), LAMBDA i:
        IF i # 0 THEN SetExisting(st, i, name, value) ELSE SetNew(st, name, value))

Push(st, v) == [st EXCEPT !.valueStack = Append(@, v)]

Op == Instr("op", "", 0, "", FALSE)

Br == Instr("br", "", 0, "", FALSE)

CondBr == Instr("condbr", "", 0, "", FALSE)

\* a call of a function found with module->getFunction(name)
LibCall(name, bad) == Instr("call", "", 0, name, bad)

RECURSIVE EmitAll(_, _)
EmitAll(st, instrs) ==
    IF instrs = <<>> THEN st ELSE EmitAll(Emit(st, instrs[1]), SubSeq(instrs, 2, Len(instrs)))

\* The blocks a lowering creates in currentFunction, given as records
\* [label, instrs]; `first` terminates the block the builder is in and the
\* builder ends in the final-th new block.
Scaffold(st, first, spec, final) ==
    LET s1 == Emit(st, first)
    IN  [s1 EXCEPT !.blocks = @ \o [i \in 1..Len(spec) |->
                                       [fn |-> st.currentFunction,
                                        label |-> spec[i].label,
                                        instrs |-> spec[i].instrs]],
                   !.insertBlock = Len(st.blocks) + final]

ArgsMatch(fn, argTys) ==
    /\ IF fn.vararg THEN Len(argTys) >= Len(fn.params) ELSE Len(argTys) = Len(fn.params)
    /\ \A i \in 1..Len(fn.params) : i <= Len(argTys) => argTys[i] = fn.params[i]

\* the instruction of builder->CreateCall(functions[name], args)
TableCallInstr(st, name, argTys) ==
    LET fn == st.fns[st.functions[name]]
    IN  Instr("call", fn.ret, st.functions[name], fn.name, ~ArgsMatch(fn, argTys))

\* builder->CreateCall(functions[name], args): returns [st, v]; operator[]
\* on a name the table lacks yields a null callee
TableCall(st, name, argTys) ==
    IF name \notin DOMAIN st.functions
    THEN [st |-> [st EXCEPT !.ub = TRUE], v |-> Garbage]
    ELSE [st |-> Emit(st, TableCallInstr(st, name, argTys)),
          v |-> Value(st.fns[st.functions[name]].ret, FALSE, "call")]

\* isStringPointer: a byte load and comparisons on it
isStringPointer(st, allowEmptyStrings) ==
    EmitAll(st, IF allowEmptyStrings THEN <<Op, Op, Op, Op, Op, Op>> ELSE <<Op, Op, Op, Op>>)

\* returns [st, v]
unboxPointerToDouble(st, ptrValue) ==
    [st |-> Emit(Scaffold(isStringPointer(st, FALSE), CondBr,
                          << [label |-> "string_to_double", instrs |-> <<LibCall("atof", FALSE), Br>>],
                             [label |-> "unbox_double", instrs |-> <<Op, Br>>],
                             [label |-> "unbox_merge", instrs |-> <<>>] >>, 3),
                 Op),
     v |-> Value("f64", FALSE, "phi")]

\* returns [st, v]
convertToDouble(st, value) ==
    IF value.ty = "f64" THEN [st |-> st, v |-> value]
    ELSE IF value.ty \in IntegerTypes
    THEN [st |-> EmitOp(st, value.const, FALSE), v |-> Value("f64", value.const, "op")]
    ELSE IF value.ty = "ptr" THEN unboxPointerToDouble(st, value)
    ELSE [st |-> st, v |-> value]

\* returns [st, v]
convertToBool(st, value) ==
    IF value.ty = "i1" THEN [st |-> st, v |-> value]
    ELSE IF value.ty \in IntegerTypes \/ value.ty = "f64"
    THEN [st |-> EmitOp(st, value.const, FALSE), v |-> Value("i1", value.const, "op")]
    ELSE [st |-> st, v |-> value]

\* returns [st, v]
boxValue(st, value) ==
    IF value.ty = "ptr" THEN [st |-> st, v |-> value]
    ELSE LET d == convertToDouble(st, value)
         IN  [st |-> EmitAll(d.st, <<LibCall("malloc", FALSE), Op>>),
              v |-> Value("ptr", FALSE, "heap")]

\* returns [st, v]; the snprintf size argument is an i32 where i64 is declared
convertToString(st, value) ==
    IF value.ty = "ptr" THEN [st |-> st, v |-> value]
    ELSE LET d == convertToDouble(st, value)
             s1 == CreateAlloca(d.st, "str_buffer", "[32 x i8]")
         IN  [st |-> Emit(s1, LibCall("snprintf", TRUE)), v |-> Value("ptr", FALSE, "alloca")]

\* returns [st, v]
createStringConcatenation(st, left, right) ==
    LET l == convertToString(st, left)
        r == convertToString(l.st, right)
    IN  [st |-> EmitAll(r.st, <<LibCall("strlen", FALSE), LibCall("strlen", FALSE), Op, Op,
                                LibCall("malloc", FALSE), LibCall("strcpy", FALSE),
                                LibCall("strcat", FALSE)>>),
         v |-> Value("ptr", FALSE, "heap")]

ArithmeticOps == {"-", "*", "%"}

ComparisonOps == {"==", "!=", "<", ">", "<=", ">="}

\* the floating-point case of a binary operator: both operands converted
FloatResult(st, op, left, right) ==
    Let(convertToDouble(st, left), LAMBDA dl:
    Let(convertToDouble(dl.st, right), LAMBDA dr:
        [st |-> EmitOp(dr.st, dl.v.const /\ dr.v.const, FALSE), result |-> TRUE,
         v |-> Value(IF op \in ComparisonOps THEN "i1" ELSE "f64",
                     dl.v.const /\ dr.v.const, "op")]))

\* the integer case of a binary operator: the operands are used as they are
IntegerResult(st, op, left, right) ==
    [st |-> EmitOp(st, left.const /\ right.const,
                   left.ty # right.ty \/ left.ty \notin IntegerTypes),
     result |-> TRUE,
     v |-> Value(IF op \in ComparisonOps THEN "i1" ELSE left.ty,
                 left.const /\ right.const, "op")]

\* a short-circuit lowering of && and ||: a conditional branch on the left
\* operand into a block of its own for the right one
LogicalResultShortCircuit(st, left, right) ==
    Let(convertToBool(st, left), LAMBDA bl:
    Let(convertToBool(bl.st, right), LAMBDA br:
        [st |-> SetInsertPoint(CreateBlock(Emit(br.st, CondBr),
                                           br.st.blocks[br.st.insertBlock].fn, "rhs"),
                               Len(br.st.blocks) + 1),
         result |-> TRUE,
         v |-> Value("i1", FALSE, "phi")]))

\* && and ||: both operands converted with convertToBool
LogicalResult(st, left, right) ==
    Let(convertToBool(st, left), LAMBDA bl:
    Let(convertToBool(bl.st, right), LAMBDA br:
        [st |-> EmitOp(br.st, bl.v.const /\ br.v.const, bl.v.ty # "i1" \/ br.v.ty # "i1"),
         result |-> TRUE,
         v |-> Value("i1", bl.v.const /\ br.v.const, "op")]))

\* the operator cases of visit(BinaryExpression*) on evaluated operands;
\* returns [st, v, result] where result is FALSE when no case applies
BinaryResult(st, op, left, right) ==
    IF op = "+" /\ (left.ty = "ptr" \/ right.ty = "ptr")
    THEN Let(createStringConcatenation(st, left, right), LAMBDA c:
             [st |-> c.st, v |-> c.v, result |-> TRUE])
    ELSE IF op = "+" \/ op \in ArithmeticOps \/ op \in ComparisonOps
    THEN IF left.ty = "f64" \/ right.ty = "f64"
         THEN FloatResult(st, op, left, right)
         ELSE IntegerResult(st, op, left, right)
    ELSE IF op = "/" THEN FloatResult(st, op, left, right)
    ELSE IF op \in {"&&", "||"} THEN LogicalResult(st, left, right)
    ELSE [st |-> st, v |-> Garbage, result |-> FALSE]

\* returns [st, v, result]
UnaryResult(st, op, operand) ==
    IF op = "-"
    THEN [st |-> EmitOp(st, operand.const, operand.ty \notin IntegerTypes \cup {"f64"}),
          v |-> Value(operand.ty, operand.const, "op"), result |-> TRUE]
    ELSE IF op = "!"
    THEN Let(convertToBool(st, operand), LAMBDA b:
             [st |-> EmitOp(b.st, b.v.const, b.v.ty # "i1"),
              v |-> Value(b.v.ty, b.v.const, "op"), result |-> TRUE])
    ELSE [st |-> st, v |-> Garbage, result |-> FALSE]

\* node->accept(this): every visit function is reached through accept
RECURSIVE accept(_, _)

\* node->accept(this); v = valueStack.top(); valueStack.pop();  returns [st, v]
Evaluate(st, node) ==
    Let(accept(st, node), LAMBDA s1:
        IF Stopped(s1) THEN [st |-> s1, v |-> Garbage]
        ELSE IF s1.valueStack = <<>>
        THEN [st |-> [s1 EXCEPT !.ub = TRUE, !.underflow = TRUE], v |-> Garbage]
        ELSE [st |-> [s1 EXCEPT !.valueStack = Front(@)], v |-> Last(s1.valueStack)])

\* the expressions evaluated in order, each converted with convertToDouble
\* right after its evaluation when toDouble; returns [st, vs]
RECURSIVE EvaluateArguments(_, _, _, _)
EvaluateArguments(st, arguments, toDouble, acc) ==
    IF arguments = <<>> \/ Stopped(st) THEN [st |-> st, vs |-> acc]
    ELSE Let(Evaluate(st, arguments[1]), LAMBDA e:
         Let(IF toDouble /\ ~Stopped(e.st) THEN convertToDouble(e.st, e.v) ELSE e, LAMBDA c:
             EvaluateArguments(c.st, Tail(arguments), toDouble, Append(acc, c.v))))

\* the lowering goes on with the evaluated arguments unless their
\* evaluation threw
WithArguments(st, arguments, toDouble, In(_)) ==
    Let(EvaluateArguments(st, arguments, toDouble, <<>>), LAMBDA a:
        IF Stopped(a.st) THEN a.st ELSE In(a))

\* the lowering goes on with the result of a call through the function table
WithCall(st, name, argTys, In(_)) ==
    Let(TableCall(st, name, argTys), LAMBDA c: IF c.st.ub THEN c.st ELSE In(c))

AllConst(vs) == \A i \in DOMAIN vs : vs[i].const

\* input()
CallInput(st, node) ==
    WithCall(EmitAll(CreateAlloca(st, "input_buffer", "[1024 x i8]"), <<Op, Op>>),
             "fgets", <<"ptr", "i32", "ptr">>, LAMBDA c:
        Push(Scaffold(EmitAll(c.st, <<LibCall("strlen", FALSE), Op, Op, Op, Op>>), CondBr,
                      << [label |-> "remove_newline", instrs |-> <<Op, Br>>],
                         [label |-> "merge", instrs |-> <<>>] >>, 2),
             Value("ptr", FALSE, "alloca")))

\* str(x)
CallStr(st, node) ==
    IF Len(node.arguments) # 1 THEN ReportError(st, "BuiltinArity", "str")
    ELSE WithArguments(st, node.arguments, TRUE, LAMBDA a:
         WithCall(Emit(CreateAlloca(a.st, "str_buffer", "[32 x i8]"), Op),
                  "snprintf", <<"ptr", "i64", "ptr", "f64">>, LAMBDA c:
         Push(c.st, Value("ptr", FALSE, "alloca"))))

\* num(s) and int(s)
CallParse(st, node) ==
    IF Len(node.arguments) # 1 THEN ReportError(st, "BuiltinArity", node.name)
    ELSE WithArguments(st, node.arguments, FALSE, LAMBDA a:
         IF a.vs[1].ty # "ptr" THEN ReportError(a.st, "BuiltinArgument", node.name)
         ELSE WithCall(a.st, IF node.name = "num" THEN "atof" ELSE "atoi", <<"ptr">>,
                       LAMBDA c:
              IF node.name = "num" THEN Push(c.st, c.v)
              ELSE Push(Emit(c.st, Instr("op", "", 0, "", c.v.ty \notin IntegerTypes)),
                        Value("f64", FALSE, "op"))))

\* the C function abs, sqrt and pow call
MathCallee(name) ==
    CASE name = "abs" -> "fabs" [] name = "sqrt" -> "mathSqrt" [] name = "pow" -> "mathPow"

\* abs(x), sqrt(x) and pow(x, y): one call of the C function
CallMath(st, node) ==
    IF Len(node.arguments) # (IF node.name = "pow" THEN 2 ELSE 1)
    THEN ReportError(st, "BuiltinArity", node.name)
    ELSE WithArguments(st, node.arguments, TRUE, LAMBDA a:
         WithCall(a.st, MathCallee(node.name), [i \in DOMAIN a.vs |-> a.vs[i].ty], LAMBDA c:
         Push(c.st, c.v)))

\* round(x) and round(x, places)
CallRound(st, node) ==
    IF Len(node.arguments) < 1 \/ Len(node.arguments) > 2
    THEN ReportError(st, "BuiltinArity", "round")
    ELSE WithArguments(st, node.arguments, TRUE, LAMBDA a:
         IF Len(node.arguments) = 1
         THEN WithCall(a.st, "mathRound", <<a.vs[1].ty>>, LAMBDA c: Push(c.st, c.v))
         ELSE WithCall(a.st, "mathPow", <<"f64", a.vs[2].ty>>, LAMBDA p:
              WithCall(Emit(p.st, Instr("op", "", 0, "", p.v.ty # "f64")),
                       "mathRound", <<"f64">>, LAMBDA c:
              Push(Emit(c.st, Instr("op", "", 0, "", c.v.ty # "f64")),
                   Value("f64", FALSE, "op")))))

\* min(a, b, ...) and max(a, b, ...): a compare and a select per argument
RECURSIVE SelectLoop(_, _, _)
SelectLoop(st, vs, i) ==
    IF i > Len(vs) THEN st
    ELSE SelectLoop(EmitOp(EmitOp(st, AllConst(vs), FALSE), AllConst(vs), FALSE), vs, i + 1)

CallMinMax(st, node) ==
    IF Len(node.arguments) < 2 THEN ReportError(st, "BuiltinArity", node.name)
    ELSE WithArguments(st, node.arguments, TRUE, LAMBDA a:
         Push(SelectLoop(a.st, a.vs, 2), Value("f64", AllConst(a.vs), "op")))

\* random(): the generator is seeded in a block of its own
CallRandom(st, node) ==
    Let(EmitAll(CreateAlloca(Scaffold(Emit(st, Op), CondBr,
                    << [label |-> "seed_random", instrs |-> <<LibCall("time", FALSE)>>],
                       [label |-> "skip_seed", instrs |-> <<Br>>],
                       [label |-> "after_seed", instrs |-> <<>>] >>, 1),
                    "entropy", "i32"),
                <<Op, Op, Op, Op, Op, Br>>), LAMBDA s2:
        Push(EmitAll(SetInsertPoint(s2, s2.insertBlock + 2), <<Op, Op, Op, Op, Op, Op>>),
             Value("f64", FALSE, "op")))

\* len(x)
CallLen(st, node) ==
    IF Len(node.arguments) # 1 THEN throw(st, "BuiltinArity", "len")
    ELSE WithArguments(st, node.arguments, FALSE, LAMBDA a:
         IF a.vs[1].ty # "ptr" THEN throw(a.st, "BuiltinArgument", "len")
         ELSE Push(Emit(Scaffold(EmitAll(a.st, <<Op, Op, Op, Op, Op>>), CondBr,
                                 << [label |-> "is_array", instrs |-> <<Op, Br>>],
                                    [label |-> "is_string",
                                     instrs |-> <<LibCall("strlen", FALSE), Op, Br>>],
                                    [label |-> "len_merge", instrs |-> <<>>] >>, 3),
                        Op),
                   Value("f64", FALSE, "phi")))

\* upper(s) and lower(s): a copy loop over a malloc'ed buffer
CallCase(st, node) ==
    IF Len(node.arguments) # 1 THEN throw(st, "BuiltinArity", node.name)
    ELSE WithArguments(st, node.arguments, FALSE, LAMBDA a:
         IF a.vs[1].ty # "ptr" THEN throw(a.st, "BuiltinArgument", node.name)
         ELSE Push(EmitAll(Scaffold(
                       Emit(CreateAlloca(EmitAll(a.st, <<LibCall("strlen", FALSE), Op,
                                                          LibCall("malloc", FALSE)>>),
                                         "index", "i64"), Op),
                       Br,
                       << [label |-> "loop_cond", instrs |-> <<Op, Op, CondBr>>],
                          [label |-> "loop_body", instrs |-> <<Op, Op, Op, Br>>],
                          [label |-> "loop_end", instrs |-> <<>>] >>, 3),
                   <<Op, Op>>),
                   Value("ptr", FALSE, "heap")))

\* the search loop of includes(array, number)
IncludesLoop(st) ==
    Emit(Scaffold(Emit(createEntryBlockAlloca(EmitAll(st, <<Op, Op, Op>>),
                                              st.currentFunction, "index", "i64"), Op),
                  Br,
                  << [label |-> "loop", instrs |-> <<Op, Op, CondBr>>],
                     [label |-> "exit", instrs |-> <<>>],
                     [label |-> "body", instrs |-> <<Op, Op, Op, Op, Op, CondBr>>] >>, 2),
         Op)

\* includes(haystack, needle)
CallIncludes(st, node) ==
    IF Len(node.arguments) # 2 THEN throw(st, "BuiltinArity", "includes")
    ELSE WithArguments(st, node.arguments, FALSE, LAMBDA a:
         IF a.vs[1].ty # "ptr" THEN throw(a.st, "BuiltinArgument", "includes")
         ELSE IF a.vs[2].ty = "ptr"
         THEN Push(EmitAll(a.st, <<LibCall("strstr", FALSE), Op, Op>>),
                   Value("f64", FALSE, "op"))
         ELSE Push(IncludesLoop(convertToDouble(a.st, a.vs[2]).st),
                   Value("f64", FALSE, "phi")))

\* replace(haystack, old, new)
CallReplace(st, node) ==
    IF Len(node.arguments) # 3 THEN throw(st, "BuiltinArity", "replace")
    ELSE WithArguments(st, node.arguments, FALSE, LAMBDA a:
         IF \E i \in 1..3 : a.vs[i].ty # "ptr"
         THEN throw(a.st, "BuiltinArgument", "replace")
         ELSE Push(Emit(Scaffold(EmitAll(a.st, <<LibCall("strstr", FALSE), Op>>), CondBr,
                                 << [label |-> "do_replace",
                                     instrs |-> <<LibCall("strlen", FALSE),
                                                  LibCall("malloc", FALSE),
                                                  LibCall("strncpy", FALSE),
                                                  LibCall("strcat", FALSE),
                                                  LibCall("strcat", FALSE), Br>>],
                                    [label |-> "no_replace",
                                     instrs |-> <<LibCall("strlen", FALSE),
                                                  LibCall("malloc", FALSE),
                                                  LibCall("strcpy", FALSE), Br>>],
                                    [label |-> "merge", instrs |-> <<>>] >>, 3),
                        Op),
                   Value("ptr", FALSE, "phi")))

\* the copy loop of append(array, value)
AppendLoop(st) ==
    EmitAll(Scaffold(Emit(CreateAlloca(
                     EmitAll(st, <<Op, Op, Op, Op, LibCall("malloc", FALSE), Op, Op, Op, Op>>),
                     "copy_index", "i64"), Op),
                     Br,
                     << [label |-> "copy_loop", instrs |-> <<Op, Op, CondBr>>],
                        [label |-> "copy_end", instrs |-> <<>>],
                        [label |-> "copy_body", instrs |-> <<Op, Op, Op, Op, Op, Op, Br>>] >>,
                     2),
            <<Op, Op>>)

\* append(array, value)
CallAppend(st, node) ==
    IF Len(node.arguments) # 2 THEN throw(st, "BuiltinArity", "append")
    ELSE WithArguments(st, node.arguments, FALSE, LAMBDA a:
         IF a.vs[1].ty # "ptr" THEN throw(a.st, "BuiltinArgument", "append")
         ELSE Push(AppendLoop(convertToDouble(a.st, a.vs[2]).st),
                   Value("ptr", FALSE, "heap")))

\* the pointer case of print: the first byte is tested with
\* isStringPointer(value, true) and the value printed in one of two new blocks
PrintPointer(st, value) ==
    Let(Scaffold(isStringPointer(st, TRUE), CondBr,
                 << [label |-> "print_string",
                     instrs |-> <<TableCallInstr(st, "printf", <<"ptr", "ptr">>), Br>>],
                    [label |-> "print_number", instrs |-> <<>>],
                    [label |-> "print_merge", instrs |-> <<>>] >>, 2), LAMBDA s1:
        SetInsertPoint(Emit(TableCall(unboxPointerToDouble(s1, value).st, "printf",
                                      <<"ptr", "f64">>).st, Br),
                       s1.insertBlock + 1))

\* one argument of print
PrintArgument(st, value) ==
    IF "printf" \notin DOMAIN st.functions THEN [st EXCEPT !.ub = TRUE]
    ELSE IF value.ty = "ptr" THEN PrintPointer(st, value)
    ELSE IF value.ty = "f64" \/ value.ty \in IntegerTypes
    THEN TableCall(st, "printf", <<"ptr", value.ty>>).st
    ELSE st

RECURSIVE PrintLoop(_, _)
PrintLoop(st, arguments) ==
    IF arguments = <<>> \/ Stopped(st) THEN st
    ELSE Let(Evaluate(st, arguments[1]), LAMBDA e:
             PrintLoop(IF Stopped(e.st) THEN e.st ELSE PrintArgument(e.st, e.v),
                       Tail(arguments)))

\* print(...)
CallPrint(st, node) ==
    Let(IF node.arguments = <<>>
        THEN TableCall(st, "printf", <<"ptr">>).st
        ELSE PrintLoop(st, node.arguments), LAMBDA s1:
        IF Stopped(s1) THEN s1 ELSE Push(s1, Value("i32", TRUE, "const")))

\* a call of any other name: the arguments of a function with internal
\* linkage are converted with convertToDouble
CallFunction(st, node) ==
    IF node.name \notin DOMAIN st.functions
    THEN throw(st, "UndefinedFunction", node.name)
    ELSE WithArguments(st, node.arguments,
                       st.fns[st.functions[node.name]].linkage = "Internal", LAMBDA a:
         Push(Emit(a.st, TableCallInstr(st, node.name, [i \in DOMAIN a.vs |-> a.vs[i].ty])),
              Value(st.fns[st.functions[node.name]].ret, FALSE, "call")))

\* a call visitor that looks the name up among the declared functions
\* before it tries the built-in names
visitCallExpressionTableFirst(st, node) ==
    IF node.name \in DOMAIN st.functions
           /\ st.fns[st.functions[node.name]].linkage = "Internal"
    THEN CallFunction(st, node)
    ELSE
    CASE node.name = "input" -> CallInput(st, node)
      [] node.name = "str" -> CallStr(st, node)
      [] node.name \in {"num", "int"} -> CallParse(st, node)
      [] node.name \in {"abs", "sqrt", "pow"} -> CallMath(st, node)
      [] node.name = "round" -> CallRound(st, node)
      [] node.name \in {"min", "max"} -> CallMinMax(st, node)
      [] node.name = "random" -> CallRandom(st, node)
      [] node.name = "len" -> CallLen(st, node)
      [] node.name \in {"upper", "lower"} -> CallCase(st, node)
      [] node.name = "includes" -> CallIncludes(st, node)
      [] node.name = "replace" -> CallReplace(st, node)
      [] node.name = "append" -> CallAppend(st, node)
      [] node.name = "print" -> CallPrint(st, node)
      [] OTHER -> CallFunction(st, node)

visitCallExpression(st, node) ==
    CASE node.name = "input" -> CallInput(st, node)
      [] node.name = "str" -> CallStr(st, node)
      [] node.name \in {"num", "int"} -> CallParse(st, node)
      [] node.name \in {"abs", "sqrt", "pow"} -> CallMath(st, node)
      [] node.name = "round" -> CallRound(st, node)
      [] node.name \in {"min", "max"} -> CallMinMax(st, node)
      [] node.name = "random" -> CallRandom(st, node)
      [] node.name = "len" -> CallLen(st, node)
      [] node.name \in {"upper", "lower"} -> CallCase(st, node)
      [] node.name = "includes" -> CallIncludes(st, node)
      [] node.name = "replace" -> CallReplace(st, node)
      [] node.name = "append" -> CallAppend(st, node)
      [] node.name = "print" -> CallPrint(st, node)
      [] OTHER -> CallFunction(st, node)

\* the index of an array access converted to an integer
IndexToInteger(st, index) ==
    IF index.ty \in IntegerTypes THEN st ELSE EmitOp(st, index.const, index.ty # "f64")

\* the array literal, index and index assignment visitors
visitArrayLiteral(st, node) ==
    WithArguments(EmitAll(st, <<LibCall("malloc", FALSE), Op, Op>>), node.elements, TRUE,
                  LAMBDA a:
        Push(EmitAll(a.st, [i \in DOMAIN a.vs |-> Op]), Value("ptr", FALSE, "heap")))

visitIndexExpression(st, node) ==
    WithArguments(st, <<node.array, node.index>>, FALSE, LAMBDA a:
        Push(EmitAll(IndexToInteger(a.st, a.vs[2]),
                     <<Instr("op", "", 0, "", a.vs[1].ty # "ptr"), Op>>),
             Value("f64", FALSE, "load")))

visitIndexAssignmentExpression(st, node) ==
    WithArguments(st, <<node.array, node.index, node.value>>, FALSE, LAMBDA a:
    Let(convertToDouble(IndexToInteger(a.st, a.vs[2]), a.vs[3]), LAMBDA d:
        Push(EmitAll(d.st, <<Instr("op", "", 0, "", a.vs[1].ty # "ptr"), Op>>), d.v)))

visitIdentifier(st, node) ==
    Let(getVariable(st, node.name), LAMBDA g:
        IF ~g.found THEN throw(g.st, "UndefinedVariable", node.name) ELSE Push(g.st, g.v))

visitBinaryExpression(st, node) ==
    Let(Evaluate(st, node.left), LAMBDA l:
        IF Stopped(l.st) THEN l.st
        ELSE Let(Evaluate(l.st, node.right), LAMBDA r:
             IF Stopped(r.st) THEN r.st
             ELSE Let(BinaryResult(r.st, node.op, l.v, r.v), LAMBDA b:
                  IF b.result THEN Push(b.st, b.v)
                  ELSE throw(b.st, "UnknownOperator", node.op))))

visitUnaryExpression(st, node) ==
    Let(Evaluate(st, node.operand), LAMBDA o:
        IF Stopped(o.st) THEN o.st
        ELSE Let(UnaryResult(o.st, node.op, o.v), LAMBDA u:
             IF u.result THEN Push(u.st, u.v)
             ELSE throw(u.st, "UnknownOperator", node.op)))

visitAssignmentExpression(st, node) ==
    Let(Evaluate(st, node.value), LAMBDA e:
        IF Stopped(e.st) THEN e.st ELSE Push(setVariable(e.st, node.name, e.v), e.v))

\* builder->GetInsertBlock()->getParent()
getParent(st) == st.blocks[st.insertBlock].fn

\* builder->CreateCondBr(condition, ...)
CreateCondBr(st, condition) == Emit(st, Instr("condbr", "", 0, "", condition.ty # "i1"))

\* builder->CreateRet(value) / CreateRetVoid(); the verifier rejects a return
\* whose operand type is not the return type of the enclosing function
CreateRet(st, ty) == Emit(st, Instr("ret", ty, 0, "", ty # st.fns[getParent(st)].ret))

\* if (!builder->GetInsertBlock()->getTerminator()) builder->CreateBr(target)
BrUnlessTerminated(st) ==
    IF Stopped(st) \/ getTerminator(st, st.insertBlock) THEN st ELSE Emit(st, Br)

visitExpressionStatement(st, node) ==
    Let(accept(st, node.expression), LAMBDA s1:
        IF Stopped(s1) \/ s1.valueStack = <<>> THEN s1
        ELSE [s1 EXCEPT !.valueStack = Front(@)])

visitVariableDeclaration(st, node) ==
    Let(IF node.initializer = NoNode
        THEN [st |-> st, v |-> Value("f64", TRUE, "const")]
        ELSE Evaluate(st, node.initializer), LAMBDA e:
        IF Stopped(e.st) \/ e.st.currentFunction = 0 THEN e.st
        ELSE Let(createEntryBlockAlloca(NoteDeclared(e.st, node.name), e.st.currentFunction,
                                        node.name, e.v.ty), LAMBDA s1:
                 [Emit(s1, Instr("store", e.v.ty, Len(s1.slots), node.name, FALSE))
                    EXCEPT !.symbolTables[Len(s1.symbolTables)].vars =
                               MapPut(@, node.name, Len(s1.slots))]))

\* history: `function` returns the pointer `value`
NoteReturned(st, function, value) ==
    [st EXCEPT !.returned = @ \cup {[function |-> function, prov |-> value.prov]}]

\* return value; with the value on hand
ReturnValue(st, value) ==
    Let(st.fns[getParent(st)].ret, LAMBDA returnType:
        IF returnType \in IntegerTypes
        THEN IF value.ty = "f64" THEN CreateRet(EmitOp(st, value.const, FALSE), "i32")
             ELSE IF value.ty = "ptr" THEN CreateRet(st, "i32")
             ELSE CreateRet(st, value.ty)
        ELSE IF returnType = "ptr"
        THEN Let(boxValue(st, value), LAMBDA boxed:
                 CreateRet(NoteReturned(boxed.st, getParent(st), boxed.v), "ptr"))
        ELSE CreateRet(st, value.ty))

visitReturnStatement(st, node) ==
    IF node.value # NoNode
    THEN Let(Evaluate(st, node.value), LAMBDA e:
             IF Stopped(e.st) THEN e.st ELSE ReturnValue(e.st, e.v))
    ELSE Let(st.fns[getParent(st)].ret, LAMBDA returnType:
             CreateRet(st, IF returnType \in IntegerTypes THEN "i32"
                           ELSE IF returnType = "ptr" THEN "ptr" ELSE "void"))

RECURSIVE visitStatements(_, _)
visitStatements(st, stmts) ==
    IF stmts = <<>> \/ Stopped(st) THEN st
    ELSE visitStatements(accept(st, stmts[1]), Tail(stmts))

\* history: visit(BlockStatement*) was entered in state `before` and is left,
\* by its return or by an exception that passes through it, in state `after`
NoteBlockExit(before, after) ==
    [after EXCEPT !.blockExits =
        Append(@, [depthBefore |-> Len(before.symbolTables),
                   depthAfter |-> Len(after.symbolTables),
                   thrown |-> after.err.kind # "none"])]

visitBlockStatement(st, node) ==
    Let(visitStatements(pushScope(EnterLexicalScope(st)), node.statements), LAMBDA s1:
        IF s1.ub THEN s1
        ELSE IF Stopped(s1) THEN NoteBlockExit(st, s1)
        ELSE NoteBlockExit(st, LeaveLexicalScope(popScope(s1))))

\* the branches of visit(IfStatement*): the merge block is thenBlock + 1 and
\* the else block thenBlock + 2
IfBranches(st, node, thenBlock) ==
    Let(BrUnlessTerminated(accept(SetInsertPoint(st, thenBlock), node.thenStatement)),
        LAMBDA s3:
        IF Stopped(s3) THEN s3
        ELSE IF node.elseStatement = NoNode
        THEN SetInsertPoint(Joined(s3, {st.stored} \cup (IF Falls(s3) THEN {s3.stored} ELSE {})),
                            thenBlock + 1)
        ELSE Let(BrUnlessTerminated(accept(SetInsertPoint(WithStored(s3, st.stored),
                                                          thenBlock + 2),
                                           node.elseStatement)), LAMBDA s4:
                 IF Stopped(s4) THEN s4
                 ELSE SetInsertPoint(Joined(s4, {s.stored : s \in {a \in {s3, s4} : Falls(a)}}),
                                     thenBlock + 1)))

visitIfStatement(st, node) ==
    Let(Evaluate(st, node.condition), LAMBDA e:
        IF Stopped(e.st) THEN e.st
        ELSE Let(convertToBool(e.st, e.v), LAMBDA c:
             Let(getParent(c.st), LAMBDA function:
             Let(CreateBlock(CreateBlock(c.st, function, "then"), function, "merge"),
                 LAMBDA s1:
                 IfBranches(CreateCondBr(IF node.elseStatement # NoNode
                                         THEN CreateBlock(s1, function, "else") ELSE s1, c.v),
                            node, Len(c.st.blocks) + 1)))))

visitWhileStatement(st, node) ==
    Let(getParent(st), LAMBDA function:
    Let(Len(st.blocks) + 1, LAMBDA condBlock:
    Let(Evaluate(SetInsertPoint(Emit(CreateBlock(CreateBlock(CreateBlock(st,
                     function, "while.cond"), function, "while.body"), function, "while.end"),
                     Br), condBlock), node.condition), LAMBDA e:
        IF Stopped(e.st) THEN e.st
        ELSE Let(convertToBool(e.st, e.v), LAMBDA c:
             Let(BrUnlessTerminated(accept(SetInsertPoint(CreateCondBr(c.st, c.v),
                                                          condBlock + 1), node.body)),
                 LAMBDA s3:
                 IF Stopped(s3) THEN s3
                 ELSE SetInsertPoint(WithStored(s3, c.st.stored), condBlock + 2))))))

\* the condition of a for statement in the condition block; a missing
\* condition is an unconditional branch to the body
ForCondition(st, node) ==
    IF node.condition = NoNode THEN Emit(st, Br)
    ELSE Let(Evaluate(st, node.condition), LAMBDA e:
             IF Stopped(e.st) THEN e.st
             ELSE Let(convertToBool(e.st, e.v), LAMBDA c: CreateCondBr(c.st, c.v)))

\* body and update of a for statement; the blocks are condBlock + 1 (body),
\* + 2 (update) and + 3 (end)
ForBody(st, node, condBlock) ==
    Let(BrUnlessTerminated(accept(SetInsertPoint(st, condBlock + 1), node.body)), LAMBDA s4:
        IF Stopped(s4) THEN s4
        ELSE Let(IF node.update # NoNode
                 THEN visitExpressionStatement(SetInsertPoint(s4, condBlock + 2),
                                               [expression |-> node.update])
                 ELSE SetInsertPoint(s4, condBlock + 2), LAMBDA s6:
                 IF Stopped(s6) THEN s6
                 ELSE SetInsertPoint(WithStored(Emit(s6, Br), st.stored), condBlock + 3)))

visitForStatement(st, node) ==
    Let(getParent(st), LAMBDA function:
    Let(IF node.init # NoNode THEN accept(st, node.init) ELSE st, LAMBDA s0:
        IF Stopped(s0) THEN s0
        ELSE Let(Len(s0.blocks) + 1, LAMBDA condBlock:
             Let(ForCondition(SetInsertPoint(Emit(CreateBlock(CreateBlock(CreateBlock(
                     CreateBlock(s0, function, "for.cond"), function, "for.body"),
                     function, "for.update"), function, "for.end"), Br), condBlock), node),
                 LAMBDA s3:
                 IF Stopped(s3) THEN s3 ELSE ForBody(s3, node, condBlock)))))

\* what the LLVM verifier rejects in block b of function f: no terminator at
\* the end, a terminator before the end, an ill-typed instruction, or a use
\* of an alloca that belongs to another function
BlockBroken(st, f, b) ==
    LET instrs == st.blocks[b].instrs
    IN  \/ instrs = <<>>
        \/ Last(instrs).op \notin Terminators
        \/ \E i \in 1..(Len(instrs) - 1) : instrs[i].op \in Terminators
        \/ \E i \in DOMAIN instrs : instrs[i].bad
        \/ \E i \in DOMAIN instrs :
              /\ instrs[i].op \in {"load", "store"}
              /\ st.slots[instrs[i].slot].fn # f

\* llvm::verifyFunction: TRUE when the function is broken
verifyFunction(st, f) ==
    \E b \in DOMAIN st.blocks : st.blocks[b].fn = f /\ BlockBroken(st, f, b)

\* llvm::verifyModule: TRUE when the module is broken; a function with
\* internal linkage must have a body
verifyModule(st) ==
    \E f \in DOMAIN st.fns :
        /\ ~st.fns[f].erased
        /\ \/ verifyFunction(st, f)
           \/ st.fns[f].linkage = "Internal" /\ st.fns[f].entry = 0

\* llvm::Function::Create(funcType, InternalLinkage, name, module) for a
\* user function, entered in the function table
DeclareFunction(st, node) ==
    [st EXCEPT !.fns = Append(@, Fn(node.name, "Internal", "ptr",
                                    [i \in 1..Len(node.parameters) |-> "f64"], FALSE)),
               !.functions = MapPut(@, node.name, Len(st.fns) + 1)]

\* the parameter loop of visit(FunctionDeclaration*); stepping the argument
\* iterator past the last argument of an existing function is undefined
RECURSIVE ParameterAllocas(_, _, _, _)
ParameterAllocas(st, function, parameters, i) ==
    IF i > Len(parameters) THEN st
    ELSE IF i > Len(st.fns[function].params) THEN [st EXCEPT !.ub = TRUE]
    ELSE LET s1 == createEntryBlockAlloca(NoteDeclared(st, parameters[i]), function,
                                          parameters[i], "f64")
             alloca == Len(s1.slots)
             s2 == Emit(s1, Instr("store", "f64", alloca, parameters[i], FALSE))
         IN  ParameterAllocas([s2 EXCEPT !.symbolTables[Len(s2.symbolTables)].vars =
                                            MapPut(@, parameters[i], alloca)],
                              function, parameters, i + 1)

\* history: visit(FunctionDeclaration*) for `function` was entered in state
\* `before` and is left in state `after`, by its return or by the exception
\* it throws when the verifier rejects the function
NoteFunctionExit(before, after, function) ==
    [after EXCEPT !.functionExits =
        Append(@, [function |-> function,
                   rejected |-> after.err.kind # "none",
                   blockBefore |-> before.insertBlock,
                   blockAfter |-> after.insertBlock,
                   functionBefore |-> before.currentFunction,
                   functionAfter |-> after.currentFunction,
                   depthBefore |-> Len(before.symbolTables),
                   depthAfter |-> Len(after.symbolTables)])]

\* the end of visit(FunctionDeclaration*) without the restoring assignments
RestoreNothing(before, after) == after

\* currentFunction = previousFunction;
\* if (previousBlock) builder->SetInsertPoint(previousBlock);
RestoreFunctionAndBlock(before, after) ==
    [after EXCEPT !.currentFunction = before.currentFunction,
                  !.insertBlock = IF before.insertBlock # 0 THEN before.insertBlock
                                  ELSE @]

visitFunctionDeclaration(st, node) ==
    Let(IF node.name \in DOMAIN st.functions THEN st ELSE DeclareFunction(st, node),
        LAMBDA s0:
    Let(s0.functions[node.name], LAMBDA function:
    Let(ParameterAllocas(pushScope(EnterLexicalScope(
            [SetInsertPoint(CreateBlock(s0, function, "entry"), Len(s0.blocks) + 1)
               EXCEPT !.currentFunction = function, !.stored = {}])),
                         function, node.parameters, 1),
        LAMBDA s2:
        IF Stopped(s2) THEN s2
        ELSE Let(accept(s2, node.body), LAMBDA s3:
             IF Stopped(s3) THEN s3
             ELSE Let(RestoreFunctionAndBlock(st, WithStored(LeaveLexicalScope(popScope(
                          IF getTerminator(s3, s3.insertBlock) THEN s3
                          ELSE CreateRet(s3, "ptr"))), st.stored)), LAMBDA s5:
                  NoteFunctionExit(st,
                      IF verifyFunction(s5, function)
                      THEN throw([s5 EXCEPT !.fns[function].erased = TRUE,
                                            !.functions = MapRemove(@, node.name)],
                                 "Verification", node.name)
                      ELSE s5, function))))))

accept(st, node) ==
    IF Stopped(st) THEN st
    ELSE CASE node.k = "NumberLiteral" -> Push(st, Value("f64", TRUE, "const"))
           [] node.k = "StringLiteral" -> Push(st, Value("ptr", TRUE, "global"))
           [] node.k = "BooleanLiteral" -> Push(st, Value("i1", TRUE, "const"))
           [] node.k = "NullLiteral" -> Push(st, Value("ptr", TRUE, "null"))
           [] node.k = "Identifier" -> visitIdentifier(st, node)
           [] node.k = "BinaryExpression" -> visitBinaryExpression(st, node)
           [] node.k = "UnaryExpression" -> visitUnaryExpression(st, node)
           [] node.k = "AssignmentExpression" -> visitAssignmentExpression(st, node)
           [] node.k = "CallExpression" -> visitCallExpression(st, node)
           [] node.k = "ArrayLiteral" -> visitArrayLiteral(st, node)
           [] node.k = "IndexExpression" -> visitIndexExpression(st, node)
           [] node.k = "IndexAssignmentExpression" -> visitIndexAssignmentExpression(st, node)
           [] node.k = "ExpressionStatement" -> visitExpressionStatement(st, node)
           [] node.k = "VariableDeclaration" -> visitVariableDeclaration(st, node)
           [] node.k = "BlockStatement" -> visitBlockStatement(st, node)
           [] node.k = "IfStatement" -> visitIfStatement(st, node)
           [] node.k = "WhileStatement" -> visitWhileStatement(st, node)
           [] node.k = "ForStatement" -> visitForStatement(st, node)
           [] node.k = "ReturnStatement" -> visitReturnStatement(st, node)
           [] node.k = "FunctionDeclaration" -> visitFunctionDeclaration(st, node)

\* a first loop of visit(Program*) that declares nothing
PredeclareNothing(st, stmts) == st

\* the first loop of visit(Program*): every top-level function is created
\* and entered in the function table
RECURSIVE PredeclareFunctions(_, _)
PredeclareFunctions(st, stmts) ==
    IF stmts = <<>> THEN st
    ELSE PredeclareFunctions(IF stmts[1].k = "FunctionDeclaration"
                             THEN DeclareFunction(st, stmts[1]) ELSE st,
                             Tail(stmts))

\* generate up to program->accept(this): main and its entry block
CreateMain(st) ==
    LET mainFunc == Len(st.fns) + 1
        s1 == [st EXCEPT !.fns = Append(@, Fn("main", "External", "i32", <<>>, FALSE))]
    IN  [SetInsertPoint(CreateBlock(s1, mainFunc, "entry"), Len(st.blocks) + 1)
           EXCEPT !.currentFunction = mainFunc]

(***************************************************************************)
(* Source texts the pipeline is run on.                                    *)
(***************************************************************************)
Snippets ==
    << "let x = 1;",
       "x = \"s\";",
       "print(x);",
       "{ let x = true; x; }",
       "function f(n) { return n; }",
       "str();",
       "return f(1);",
       ")" >>

\* the concatenations of exactly n snippets
RECURSIVE Concatenations(_)
Concatenations(n) ==
    IF n = 0 THEN {""}
    ELSE {s \o " " \o Snippets[i] : s \in Concatenations(n - 1), i \in DOMAIN Snippets}

\* one literal per IR type: f64, i1, i32 (the value of print()) and ptr
TypedLiterals == {"1", "true", "print()", "\"s\""}

\* n bound in the innermost scope, in an outer scope or in none, then
\* assigned and read
AssignmentFamily ==
    {"let n = " \o a \o "; n = " \o b \o "; n;" : a \in TypedLiterals, b \in TypedLiterals}
    \cup {"let n = " \o a \o "; { n = " \o b \o "; n; }" : a \in TypedLiterals, b \in TypedLiterals}
    \cup {"n = " \o b \o "; { n; }" : b \in TypedLiterals}

Programs ==
    { "function fact(n) { if (n <= 1) { return 1; } else { return n * fact(n - 1); } } print(fact(5));",
      "let a = [10, 20, 30]; a[1] = 99;",
      "let numbers = [1, 2, 3]; print(numbers[0]);",
      "let ;",
      "1;",
      "// nothing\n",
      "abs(1, 2); pow(1); min(1); num(1); int(); round(); max(); sqrt();",
      "let s = str();",
      "y;",
      "g();",
      "len();",
      "upper(1);",
      "print(abs(0 - 2), sqrt(4), pow(2, 3), min(1, 2), round(1.5), str(1), num(\"1\"));",
      "function f() { return 1; return 2; }",
      "function f() { return 1; print(1); }",
      "return 1;",
      "function f(c) { if (c) { return 1; } else { return 2; } }",
      "function f(c) { while (c) { return 1; } return 0; }",
      "function f() { return 1; while (true) { } }",
      "for (let i = 0; i < 3; i = i + 1) { print(i); }",
      "let g = 1; function f() { return g; }",
      "let g = 1; function f() { g = 2; }",
      "let x = 1; function f() { x = \"t\"; } print(x);",
      "function f(a) { let b = a + 1; b = b * 2; return b; } print(f(1));",
      "let x = 1; { let x = \"s\"; print(x); x = 2; } print(x); x = true;",
      "{ let y = 1; } y;",
      "{ let y = 1; } y = 2; y;",
      "{ { let z = 1; } let z = true; z; } ",
      "function f(x) { { let x = \"s\"; x; } return x; }",
      "print(f()); function f() { return 1; }",
      "function f(n) { return f(n - 1); }",
      "function a() { return b(); } function b() { return a(); }",
      "function a() { function b() { return 1; } return b(); } b();",
      "function a() { return b(); function b() { return 1; } }",
      "let t = \"a\" + \"b\"; if (t) { print(t); }",
      "print(\"a\" + 1);",
      "print(1 + 2 * 3 == 7 && !false || 1 < 2);",
      "print(null);",
      "let c = true; if (c) { print(str(1)); }",
      "let n = 0; while (n < 1) { print(\"n\" + n); n = n + 1; }",
      "{ y; }",
      "{ let a = 1; g(); } let b = 2;",
      "function f() { { y; } }",
      "function a() { return 1; } function f() { return 1; return 2; }",
      "if (\"s\") { print(1); }",
      "while (null) { }",
      "function f() { return 1; } if (f()) { print(1); }",
      "function f() { return 1; } function g() { return 0; } f() && g();",
      "function f() { return 1; } function g() { return 0; } g() || f();",
      "let x = 0; false && (x = 1); print(x);",
      "true || print(1);",
      "1 < 2 && len(\"s\") > 0;",
      "function max(a, b) { if (a > b) { return a; } else { return b; } } print(max(1, 2));",
      "function max(a, b) { return a; } max(1, 2);",
      "function str(x) { return 0; } str(1); str();",
      "function len(v) { return len(v); } len(\"s\");",
      "let c = true; let x = 1; if (c) { x = \"s\"; } print(x);",
      "let c = true; let x = 1; if (c) { x = 2; } else { x = 3; } print(x);",
      "let n = 0; while (n < 1) { n = \"s\"; } print(n);",
      "function f(x) { return str(x); } print(f(1));",
      "function g() { return input(); } print(g());",
      "function h(x) { return \"s\" + x; } function k() { return \"s\"; } print(h(1), k());" }

Sources ==
    UNION {Concatenations(n) : n \in 0..MaxStmts} \cup AssignmentFamily \cup Programs

(***************************************************************************)
(* The driver (src/unnamed/part_003, main).                                *)
(***************************************************************************)
NoCodeGenerator == [k |-> "None"]

Idle == [phase |-> "idle"]

Init ==
    /\ pc = "read"
    /\ source \in Sources
    /\ tokens = <<>>
    /\ parser = ParserInit
    /\ ast = NoProgram
    /\ cg = NoCodeGenerator
    /\ stmtIndex = 1
    /\ genResult = "none"
    /\ irFile = "absent"
    /\ exitCode = "running"
    /\ rt = Idle
    /\ lexer = LexerInit

Exit(status) == pc' = "done" /\ exitCode' = status

\* readFile returned the text
ReadFile ==
    /\ pc = "read"
    /\ pc' = "lex"
    /\ UNCHANGED <<source, tokens, parser, ast, cg, stmtIndex, genResult, irFile, exitCode, rt, lexer>>

\* readFile threw: main's catch returns 1
ReadFileFails ==
    /\ pc = "read"
    /\ Exit("1")
    /\ UNCHANGED <<source, tokens, parser, ast, cg, stmtIndex, genResult, irFile, rt, lexer>>

\* Lexer lexer(source); one pass of the do-while loop of Lexer::tokenize that
\* pushes a token other than END_OF_FILE
LexToken ==
    /\ pc = "lex"
    /\ LET r == nextToken(source, lexer)
       IN  /\ r.tok.type # "END_OF_FILE"
           /\ tokens' = Append(tokens, r.tok)
           /\ lexer' = r.lx
    /\ UNCHANGED <<pc, source, parser, ast, cg, stmtIndex, genResult, irFile, exitCode, rt>>

\* a last pass of the loop that pushes nothing
LexEndNoEOF ==
    /\ pc = "lex"
    /\ nextToken(source, lexer).tok.type = "END_OF_FILE"
    /\ parser' = ParserInit
    /\ pc' = "parse"
    /\ UNCHANGED <<source, tokens, lexer, ast, cg, stmtIndex, genResult, irFile, exitCode, rt>>

\* the last pass of the loop pushes END_OF_FILE and tokenize returns;
\* Parser parser(tokens)
LexEnd ==
    /\ pc = "lex"
    /\ LET r == nextToken(source, lexer)
       IN  /\ r.tok.type = "END_OF_FILE"
           /\ tokens' = Append(tokens, r.tok)
           /\ lexer' = r.lx
    /\ parser' = ParserInit
    /\ pc' = "parse"
    /\ UNCHANGED <<source, ast, cg, stmtIndex, genResult, irFile, exitCode, rt>>

\* one pass of parseProgram's loop in which parseStatement returns
ParseStatementOk ==
    /\ pc = "parse"
    /\ ~PIsAtEnd(tokens, parser.current)
    /\ LET r == parseStatement(tokens, parser.current, parser.diags)
       IN  /\ ~r.thrown
           /\ parser' = [current |-> r.cur,
                         statements |-> Append(parser.statements, r.node),
                         diags |-> r.diags,
                         recoveries |-> parser.recoveries]
    /\ UNCHANGED <<pc, source, tokens, ast, cg, stmtIndex, genResult, irFile, exitCode, rt, lexer>>

\* one pass of parseProgram's loop in which parseStatement throws: the
\* ParseError is caught and the parser synchronizes
ParseStatementError ==
    /\ pc = "parse"
    /\ ~PIsAtEnd(tokens, parser.current)
    /\ LET r == parseStatement(tokens, parser.current, parser.diags)
       IN  /\ r.thrown
           /\ parser' = [current |-> synchronize(tokens, r.cur),
                         statements |-> parser.statements,
                         diags |-> r.diags,
                         recoveries |-> Append(parser.recoveries,
                                               [from |-> r.cur,
                                                to |-> synchronize(tokens, r.cur)])]
    /\ UNCHANGED <<pc, source, tokens, ast, cg, stmtIndex, genResult, irFile, exitCode, rt, lexer>>

\* parseProgram leaves its loop and parse returns the Program
ParseReturn ==
    /\ pc = "parse"
    /\ PIsAtEnd(tokens, parser.current)
    /\ ast' = Program(parser.statements)
    /\ pc' = "parsed"
    /\ UNCHANGED <<source, tokens, parser, cg, stmtIndex, genResult, irFile, exitCode, rt, lexer>>

\* if (!ast) return 1; CodeGenerator codegen(baseName); generate up to the
\* statement loop of visit(Program*)
GenerateBegin ==
    /\ pc = "parsed"
    /\ IF ast = NoProgram
       THEN Exit("1") /\ UNCHANGED <<cg, stmtIndex>>
       ELSE /\ cg' = PredeclareFunctions(CreateMain(CodeGeneratorInit), ast.statements)
            /\ stmtIndex' = 1
            /\ pc' = "emit"
            /\ UNCHANGED exitCode
    /\ UNCHANGED <<source, tokens, parser, ast, genResult, irFile, rt, lexer>>

\* one pass of the statement loop of visit(Program*)
EmitStatement ==
    /\ pc = "emit"
    /\ ~Stopped(cg)
    /\ stmtIndex <= Len(ast.statements)
    /\ cg' = accept(cg, ast.statements[stmtIndex])
    /\ stmtIndex' = stmtIndex + 1
    /\ UNCHANGED <<pc, source, tokens, parser, ast, genResult, irFile, exitCode, rt, lexer>>

\* program->accept returned: main's final ret and verifyModule
GenerateReturn ==
    /\ pc = "emit"
    /\ ~Stopped(cg)
    /\ stmtIndex > Len(ast.statements)
    /\ cg' = CreateRet(cg, "i32")
    /\ genResult' = IF verifyModule(cg') THEN "false" ELSE "true"
    /\ pc' = "generated"
    /\ UNCHANGED <<source, tokens, parser, ast, stmtIndex, irFile, exitCode, rt, lexer>>

\* an exception left program->accept: generate's catch returns false
GenerateCatch ==
    /\ pc = "emit"
    /\ cg.err.kind # "none"
    /\ genResult' = "false"
    /\ pc' = "generated"
    /\ UNCHANGED <<source, tokens, parser, ast, cg, stmtIndex, irFile, exitCode, rt, lexer>>

\* the emitter read the top of an empty value stack: what generate does
\* from there on is not defined
GenerateUndefined ==
    /\ pc = "emit"
    /\ cg.ub
    /\ \/ genResult' \in {"true", "false"} /\ pc' = "generated" /\ UNCHANGED exitCode
       \/ Exit("crash") /\ UNCHANGED genResult
    /\ UNCHANGED <<source, tokens, parser, ast, cg, stmtIndex, irFile, rt, lexer>>

\* a driver that goes on to write the IR file although generate returned false
CodeGenerationIgnored ==
    /\ pc = "generated"
    /\ genResult = "false"
    /\ irFile' = "written"
    /\ Exit("0")
    /\ UNCHANGED <<source, tokens, parser, ast, cg, stmtIndex, genResult, rt, lexer>>

\* if (!codegen.generate(ast.get())) return 1
CodeGenerationFailed ==
    /\ pc = "generated"
    /\ genResult = "false"
    /\ Exit("1")
    /\ UNCHANGED <<source, tokens, parser, ast, cg, stmtIndex, genResult, irFile, rt, lexer>>

\* writeIRToFile; with --emit-ir main returns 0 after it
WriteIRToFile ==
    /\ pc = "generated"
    /\ genResult = "true"
    /\ \E opened \in BOOLEAN, emitIR \in BOOLEAN :
          IF ~opened THEN Exit("1") /\ UNCHANGED irFile
          ELSE /\ irFile' = "written"
               /\ IF emitIR THEN Exit("0") ELSE pc' = "backend" /\ UNCHANGED exitCode
    /\ UNCHANGED <<source, tokens, parser, ast, cg, stmtIndex, genResult, rt, lexer>>

\* opt, llc and the linker; the intermediate files are removed after a
\* successful link unless an option keeps them
Backend ==
    /\ pc = "backend"
    /\ \E succeeded \in BOOLEAN, keep \in BOOLEAN :
          /\ Exit(IF succeeded THEN "0" ELSE "1")
          /\ irFile' = IF succeeded /\ ~keep THEN "removed" ELSE irFile
    /\ UNCHANGED <<source, tokens, parser, ast, cg, stmtIndex, genResult, rt, lexer>>

Next ==
    \/ ReadFile
    \/ ReadFileFails
    \/ LexToken
    \/ LexEnd
    \/ ParseStatementOk
    \/ ParseStatementError
    \/ ParseReturn
    \/ GenerateBegin
    \/ EmitStatement
    \/ GenerateReturn
    \/ GenerateCatch
    \/ GenerateUndefined
    \/ CodeGenerationFailed
    \/ WriteIRToFile
    \/ Backend

Spec == Init /\ [][Next]_vars

(***************************************************************************)
(* The front end alone, Lexer::tokenize and Parser::parse, on every short  *)
(* text over a small alphabet.  main runs them without a pause, hence the  *)
(* weak fairness of the steps.                                             *)
(***************************************************************************)
Chars == <<"a", "1", " ", "\n", "\"", "\\", "/", "*", "&", ".", "=", "@">>

\* the texts of exactly n characters
RECURSIVE TextsOfLength(_)
TextsOfLength(n) ==
    IF n = 0 THEN {""}
    ELSE {s \o Chars[i] : s \in TextsOfLength(n - 1), i \in DOMAIN Chars}

Texts(n) == UNION {TextsOfLength(k) : k \in 0..n}

\* a block comment around x, followed by y
CommentTexts == {"/*" \o x \o "*/" \o y : x \in Texts(1), y \in Texts(1)}

LexerTexts ==
    { "/* a /* b */ c */",
      "\"abc",
      "\"ab\\",
      "'a\\'",
      "/* x",
      "/* x *",
      "a & b",
      "a | b",
      "# ? ~",
      "let s = \"a b\";",
      "x = 1.5; // c\ny",
      "'it' 's'",
      "\"a\\nb\" + 'c'",
      "a\n  bb\n\tccc",
      "1.2.3 4.",
      "a<=b!=c&&d||e>=f",
      "f(\"x\")\n  \"y z\"",
      "// only\n/* this */" }

InitLex ==
    /\ pc = "lex"
    /\ source \in Texts(MaxChars) \cup CommentTexts \cup LexerTexts
    /\ tokens = <<>>
    /\ parser = ParserInit
    /\ ast = NoProgram
    /\ cg = NoCodeGenerator
    /\ stmtIndex = 1
    /\ genResult = "none"
    /\ irFile = "absent"
    /\ exitCode = "running"
    /\ rt = Idle
    /\ lexer = LexerInit

NextLex ==
    \/ LexToken
    \/ LexEnd

SpecLex == InitLex /\ [][NextLex]_vars /\ WF_vars(NextLex)

Words == <<"x", "1", "()", "(1)", ")", "{", "}", ";", "let", "=", "@">>

\* the texts of exactly n words
RECURSIVE SentencesOfLength(_)
SentencesOfLength(n) ==
    IF n = 0 THEN {""}
    ELSE {s \o " " \o Words[i] : s \in SentencesOfLength(n - 1), i \in DOMAIN Words}

Sentences(n) == UNION {SentencesOfLength(k) : k \in 0..n}

BinaryOperators ==
    <<"||", "&&", "==", "!=", "<", "<=", ">", ">=", "+", "-", "*", "/", "%", "=">>

Operands == <<"a", "b", "c", "d", "e">>

\* a, a op b, a op b op c, ...: the expressions with exactly n operators
RECURSIVE ExpressionsOfLength(_)
ExpressionsOfLength(n) ==
    IF n = 0 THEN {Operands[1]}
    ELSE {e \o " " \o BinaryOperators[i] \o " " \o Operands[n + 1] :
            e \in ExpressionsOfLength(n - 1), i \in DOMAIN BinaryOperators}

Expressions(n) == {e \o ";" : e \in UNION {ExpressionsOfLength(k) : k \in 0..n}}

ParserTexts ==
    { "x let y = 1;",
      "x y; let z = 2;",
      "1(2);",
      "f()();",
      "f(1, 2)(3);",
      "{ let x = 1;",
      "{ { x; }",
      "# ? ~",
      "let ; let y = 2;",
      "x = ; y = 2; ) z;",
      "1 + ; 2 * ; let z = 3;",
      "1 ) if (x) y; ) return 1;",
      "f( while (x) { y; }",
      "1 + 2 * 3;",
      "1 * 2 + 3;",
      "a - b - c;",
      "a = b = c;",
      "-a * b;",
      "!a == b;",
      "- - a;",
      "- !a - -b;",
      "a = -b + c;",
      "a || b && c == d;",
      "a < b + c * -d;",
      "a * b + c < d;",
      "if (x) { y; } else z;",
      "for (;;) x;",
      "function f() { let = 1; return 2; }",
      "function f() { return 1; } let y = 2;",
      "while (x) { 1 + ; y; }",
      "; )" }

InitParse ==
    /\ pc = "lex"
    /\ source \in Sentences(MaxWords) \cup Expressions(MaxOps) \cup ParserTexts
    /\ tokens = <<>>
    /\ parser = ParserInit
    /\ ast = NoProgram
    /\ cg = NoCodeGenerator
    /\ stmtIndex = 1
    /\ genResult = "none"
    /\ irFile = "absent"
    /\ exitCode = "running"
    /\ rt = Idle
    /\ lexer = LexerInit

NextParse ==
    \/ LexToken
    \/ LexEnd
    \/ ParseStatementOk
    \/ ParseStatementError
    \/ ParseReturn

SpecParse == InitParse /\ [][NextParse]_vars /\ WF_vars(NextParse)


(***************************************************************************)
(* A run of the code emitted for print(value) and for                      *)
(* convertToDouble(value) on a pointer-typed value.  mem holds the bytes   *)
(* the pointer refers to: the 8 bytes of a boxed double (boxValue) or the  *)
(* characters of a C string with its terminating NUL.  kind and num say    *)
(* what was stored there; the emitted code reads mem only.                 *)
(***************************************************************************)
PRINTABLE_MIN == 32

PRINTABLE_MAX == 126

RECURSIVE Pow2(_)
Pow2(n) == IF n = 0 THEN 1 ELSE 2 * Pow2(n - 1)

\* floor(log2(n)) of n >= 1
RECURSIVE Log2(_)
Log2(n) == IF n < 2 THEN 0 ELSE 1 + Log2(n \div 2)

\* byte i (0 is the least significant) of m * 2^shift
ShiftedByte(m, shift, i) ==
    IF shift >= 8 * i
    THEN IF shift - 8 * i >= 8 THEN 0 ELSE ((m % 256) * Pow2(shift - 8 * i)) % 256
    ELSE (m \div Pow2(8 * i - shift)) % 256

\* builder->CreateStore(value, doublePtr) in boxValue: the little-endian
\* IEEE-754 binary64 bytes of the integer-valued double n >= 0
DoubleBytes(n) ==
    IF n = 0 THEN [i \in 1..8 |-> 0]
    ELSE [i \in 1..8 |->
            CASE i <= 6 -> ShiftedByte(n - Pow2(Log2(n)), 52 - Log2(n), i - 1)
              [] i = 7 -> ((1023 + Log2(n)) % 16) * 16
                          + (ShiftedByte(n - Pow2(Log2(n)), 52 - Log2(n), 6) % 16)
              [] i = 8 -> (1023 + Log2(n)) \div 16]

\* byte i (0..6) of the fraction field of the double in mem
FractionByte(mem, i) == IF i = 6 THEN mem[7] % 16 ELSE mem[i + 1]

\* the fraction field of the double in mem under the exponent k, as a
\* multiple of 2^(k - 52): the sum over the bytes i..6
RECURSIVE FractionValue(_, _, _)
FractionValue(mem, k, i) ==
    IF i > 6 THEN 0
    ELSE FractionValue(mem, k, i + 1)
         + (IF 8 * i >= 52 - k
            THEN FractionByte(mem, i) * Pow2(8 * i - 52 + k)
            ELSE IF 52 - k - 8 * i >= 8 THEN 0
            ELSE FractionByte(mem, i) \div Pow2(52 - k - 8 * i))

\* whether the double in mem under the exponent k is an integer
FractionIntegral(mem, k) ==
    \A i \in 0..6 :
        8 * i < 52 - k =>
            IF 52 - k - 8 * i >= 8 THEN FractionByte(mem, i) = 0
            ELSE FractionByte(mem, i) % Pow2(52 - k - 8 * i) = 0

\* builder->CreateLoad(double, doublePtr) in unboxPointerToDouble: the
\* double the first 8 bytes of mem encode.  The load is defined only when
\* mem has 8 bytes; the model holds the non-negative integers below 2^31.
LoadDouble(mem) ==
    IF Len(mem) < 8 THEN [defined |-> FALSE, value |-> 0]
    ELSE Let((mem[8] % 128) * 16 + mem[7] \div 16, LAMBDA exponent:
             IF exponent = 0 /\ \A i \in 0..6 : FractionByte(mem, i) = 0
             THEN [defined |-> TRUE, value |-> 0]
             ELSE IF mem[8] >= 128 \/ exponent < 1023 \/ exponent > 1023 + 30
                     \/ ~FractionIntegral(mem, exponent - 1023)
             THEN [defined |-> FALSE, value |-> 0]
             ELSE [defined |-> TRUE,
                   value |-> Pow2(exponent - 1023)
                             + FractionValue(mem, exponent - 1023, 0)])

\* the characters of the C string at mem: the bytes before the first NUL
RECURSIVE CStringAt(_, _)
CStringAt(mem, i) ==
    IF i > Len(mem) \/ mem[i] = 0 THEN <<>> ELSE <<mem[i]>> \o CStringAt(mem, i + 1)

\* atof on the C string at mem: white space is skipped and the decimal
\* digits that follow are the value (0 when there are none)
RECURSIVE atof(_, _, _)
atof(mem, i, acc) ==
    IF i > Len(mem) THEN acc
    ELSE IF acc = 0 /\ (mem[i] = 32 \/ mem[i] \in 9..13) /\ (i = 1 \/ mem[i - 1] \notin 48..57)
    THEN atof(mem, i + 1, acc)
    ELSE IF mem[i] \in 48..57 THEN atof(mem, i + 1, acc * 10 + mem[i] - 48)
    ELSE acc

\* the decimal digits of n >= 0 as characters
RECURSIVE DecimalDigits(_)
DecimalDigits(n) ==
    IF n < 10 THEN <<48 + n>> ELSE DecimalDigits(n \div 10) \o <<48 + (n % 10)>>

\* what printf("%f\n", v) writes for an integer-valued v >= 0
FormatF(v) == DecimalDigits(v) \o <<46, 48, 48, 48, 48, 48, 48, 10>>

\* what printf("%s\n", p) writes
FormatS(mem) == CStringAt(mem, 1) \o <<10>>

\* the i1 isStringPointer computes from the byte loaded at the pointer
isPrintable(firstByte) == firstByte >= PRINTABLE_MIN /\ firstByte <= PRINTABLE_MAX

IsString(mem, allowEmptyStrings) ==
    IF allowEmptyStrings THEN mem[1] = 0 \/ isPrintable(mem[1]) ELSE isPrintable(mem[1])

\* C strings: empty, "120", "a", " 5", "~", and strings that begin with a
\* newline, a DEL and a unit separator
CStrings ==
    { <<>>, <<49, 50, 48>>, <<97>>, <<32, 53>>, <<126>>, <<10, 97>>, <<127>>, <<31>> }

RunValues ==
    {[kind |-> "boxed", num |-> n, mem |-> DoubleBytes(n)] : n \in 0..MaxBoxed}
    \cup {[kind |-> "string", num |-> 0, mem |-> s \o <<0>>] : s \in CStrings}

NoOutput == [defined |-> TRUE, text |-> <<>>]

InitRun ==
    /\ pc = "run"
    /\ source = ""
    /\ tokens = <<>>
    /\ parser = ParserInit
    /\ ast = NoProgram
    /\ cg = NoCodeGenerator
    /\ stmtIndex = 1
    /\ genResult = "none"
    /\ irFile = "absent"
    /\ exitCode = "running"
    /\ lexer = LexerInit
    /\ rt \in {[phase |-> "entry", op |-> o, kind |-> p.kind, num |-> p.num, mem |-> p.mem,
                value |-> [defined |-> TRUE, value |-> 0], out |-> NoOutput] :
               o \in {"print", "convertToDouble"}, p \in RunValues}

Compiler ==
    <<pc, source, tokens, parser, ast, cg, stmtIndex, genResult, irFile, exitCode, lexer>>

\* print: br isStringPointer(value, true), print_string, print_number
PrintEntry ==
    /\ rt.phase = "entry" /\ rt.op = "print"
    /\ rt' = [rt EXCEPT !.phase = IF IsString(rt.mem, TRUE) THEN "print_string"
                                  ELSE "print_number"]
    /\ UNCHANGED Compiler

\* print_string: printf("%s\n", value)
PrintString ==
    /\ rt.phase = "print_string"
    /\ rt' = [rt EXCEPT !.phase = "print_merge",
                        !.out = [defined |-> TRUE, text |-> FormatS(rt.mem)]]
    /\ UNCHANGED Compiler

\* unboxPointerToDouble: br isStringPointer(ptrValue, false),
\* string_to_double, unbox_double
UnboxEntry ==
    /\ \/ rt.phase = "print_number"
       \/ rt.phase = "entry" /\ rt.op = "convertToDouble"
    /\ rt' = [rt EXCEPT !.phase = IF IsString(rt.mem, FALSE) THEN "string_to_double"
                                  ELSE "unbox_double"]
    /\ UNCHANGED Compiler

\* string_to_double: atof(ptrValue)
StringToDouble ==
    /\ rt.phase = "string_to_double"
    /\ rt' = [rt EXCEPT !.phase = "unbox_merge",
                        !.value = [defined |-> TRUE, value |-> atof(rt.mem, 1, 0)]]
    /\ UNCHANGED Compiler

\* unbox_double: the load of a double from the pointer
UnboxDouble ==
    /\ rt.phase = "unbox_double"
    /\ rt' = [rt EXCEPT !.phase = "unbox_merge", !.value = LoadDouble(rt.mem)]
    /\ UNCHANGED Compiler

\* unbox_merge; in print_number: printf("%f\n", doubleVal)
UnboxMerge ==
    /\ rt.phase = "unbox_merge"
    /\ rt' = IF rt.op = "print"
             THEN [rt EXCEPT !.phase = "print_merge",
                             !.out = IF rt.value.defined
                                     THEN [defined |-> TRUE, text |-> FormatF(rt.value.value)]
                                     ELSE [defined |-> FALSE, text |-> <<>>]]
             ELSE [rt EXCEPT !.phase = "return"]
    /\ UNCHANGED Compiler

NextRun ==
    \/ PrintEntry
    \/ PrintString
    \/ UnboxEntry
    \/ StringToDouble
    \/ UnboxDouble
    \/ UnboxMerge

SpecRun == InitRun /\ [][NextRun]_vars

(***************************************************************************)
(* A run of the code emitted for len(value) and for append(array, value).  *)
(* heap is the memory of the process as a sequence of bytes; an address is *)
(* a 0-based offset into it and -1 is a byte malloc returned that was not  *)
(* written yet.  An array of n elements is the block the array literal    *)
(* builds: the double n followed by the n elements, its value the address  *)
(* of the first element.  A string is its characters and a NUL, its value  *)
(* the address of the first character.                                     *)
(***************************************************************************)
\* the double 0.3, 0x3FD3333333333333, least significant byte first
ThreeTenths == <<51, 51, 51, 51, 51, 51, 211, 63>>

\* the doubles an array element or an appended value is drawn from
Doubles == {DoubleBytes(0), DoubleBytes(1), DoubleBytes(7), ThreeTenths}

\* the sequences of exactly n doubles
RECURSIVE ElementsOfLength(_)
ElementsOfLength(n) ==
    IF n = 0 THEN {<<>>}
    ELSE {Append(e, d) : e \in ElementsOfLength(n - 1), d \in Doubles}

\* the concatenation of a sequence of byte sequences
RECURSIVE Flatten(_)
Flatten(seqs) == IF seqs = <<>> THEN <<>> ELSE Head(seqs) \o Flatten(Tail(seqs))

\* visit(ArrayLiteral*): malloc((n + 1) * 8), the count stored in slot 0 and
\* the elements behind it
ArrayBlock(elements) == DoubleBytes(Len(elements)) \o Flatten(elements)

Undefined == [defined |-> FALSE, value |-> 0]

Defined(v) == [defined |-> TRUE, value |-> v]

\* load i8 from addr; a load outside the heap or of a byte never written is
\* undefined
LoadByte(heap, addr) ==
    IF addr >= 0 /\ addr < Len(heap) /\ heap[addr + 1] >= 0
    THEN Defined(heap[addr + 1]) ELSE Undefined

\* the 8 bytes a load of a double from addr reads, <<>> for a load that is
\* undefined
LoadBytes(heap, addr) ==
    IF addr >= 0 /\ addr + 8 <= Len(heap) /\ \A i \in 1..8 : heap[addr + i] >= 0
    THEN SubSeq(heap, addr + 1, addr + 8) ELSE <<>>

\* store double bytes at addr; the heap becomes <<>> when the store is
\* undefined
StoreBytes(heap, addr, bytes) ==
    IF addr >= 0 /\ addr + 8 <= Len(heap) /\ Len(bytes) = 8
    THEN [i \in 1..Len(heap) |-> IF i - addr \in 1..8 THEN bytes[i - addr] ELSE heap[i]]
    ELSE <<>>

\* CreateInBoundsGEP(double, ptr, index)
GEP(ptr, index) == ptr + 8 * index

\* strlen(addr): the number of bytes before the first NUL
RECURSIVE strlen(_, _, _)
strlen(heap, addr, n) ==
    IF ~LoadByte(heap, addr + n).defined THEN Undefined
    ELSE IF heap[addr + n + 1] = 0 THEN Defined(n)
    ELSE strlen(heap, addr, n + 1)

\* the values len and append are run on: kind, elements and text say what
\* the heap was built from; the emitted code sees heap and value only
ArrayValues ==
    {[kind |-> "array", elements |-> e, text |-> <<>>, heap |-> ArrayBlock(e), value |-> 8] :
        e \in UNION {ElementsOfLength(n) : n \in 0..MaxElements}}

StringValues ==
    {[kind |-> "string", elements |-> <<>>, text |-> s, heap |-> s \o <<0>>, value |-> 0] :
        s \in CStrings}

InitArray ==
    /\ pc = "run"
    /\ source = ""
    /\ tokens = <<>>
    /\ parser = ParserInit
    /\ ast = NoProgram
    /\ cg = NoCodeGenerator
    /\ stmtIndex = 1
    /\ genResult = "none"
    /\ irFile = "absent"
    /\ exitCode = "running"
    /\ lexer = LexerInit
    /\ rt \in {[phase |-> "entry", op |-> "len", kind |-> p.kind, elements |-> p.elements,
                text |-> p.text, heap |-> p.heap, value |-> p.value,
                newValue |-> <<>>, currentSize |-> 0, newDataPtr |-> 0, index |-> 0,
                result |-> Undefined] : p \in ArrayValues \cup StringValues}
          \cup
             {[phase |-> "entry", op |-> "append", kind |-> p.kind, elements |-> p.elements,
                text |-> p.text, heap |-> p.heap, value |-> p.value,
                newValue |-> d, currentSize |-> 0, newDataPtr |-> 0, index |-> 0,
                result |-> Undefined] : p \in ArrayValues, d \in Doubles}

\* len: firstByte = load i8, value; br isPrintable, is_string, is_array.  A
\* branch on an undefined byte goes either way.
LenEntry ==
    /\ rt.phase = "entry" /\ rt.op = "len"
    /\ LET firstByte == LoadByte(rt.heap, rt.value)
       IN  \E printable \in BOOLEAN :
              /\ firstByte.defined => printable = isPrintable(firstByte.value)
              /\ rt' = [rt EXCEPT !.phase = IF printable THEN "is_string" ELSE "is_array"]
    /\ UNCHANGED Compiler

\* is_array: arraySize = load double, sizePtr, with sizePtr = GEP(value, -1)
LenArray ==
    /\ rt.phase = "is_array"
    /\ rt' = [rt EXCEPT !.phase = "len_merge",
                        !.result = LoadDouble(LoadBytes(rt.heap, GEP(rt.value, -1)))]
    /\ UNCHANGED Compiler

\* is_string: strLengthDouble = uitofp(strlen(value))
LenString ==
    /\ rt.phase = "is_string"
    /\ rt' = [rt EXCEPT !.phase = "len_merge", !.result = strlen(rt.heap, rt.value, 0)]
    /\ UNCHANGED Compiler

\* a copy that counts its slots from the beginning of the new block
CopyFromBlockStart(newDataPtr, currentIndex) == GEP(newDataPtr, currentIndex - 1)

\* the address appended elements are copied to: GEP(newDataPtr, currentIndex)
CopyDestination(newDataPtr, currentIndex) == GEP(newDataPtr, currentIndex)

\* append up to br copy_loop: currentSize is loaded from slot -1, the new
\* block of (currentSize + 2) * 8 bytes is taken from malloc behind the
\* heap, the new count is stored in its slot 0 and copy_index is set to 0
AppendEntry ==
    /\ rt.phase = "entry" /\ rt.op = "append"
    /\ LET currentSize == LoadDouble(LoadBytes(rt.heap, GEP(rt.value, -1)))
           newArrayPtr == Len(rt.heap)
           block == [i \in 1..(8 * (currentSize.value + 2)) |-> -1]
       IN  rt' = IF ~currentSize.defined THEN [rt EXCEPT !.phase = "undefined"]
                 ELSE [rt EXCEPT !.phase = "copy_loop",
                                 !.currentSize = currentSize.value,
                                 !.heap = StoreBytes(rt.heap \o block, newArrayPtr,
                                                     DoubleBytes(currentSize.value + 1)),
                                 !.newDataPtr = GEP(newArrayPtr, 1),
                                 !.index = 0]
    /\ UNCHANGED Compiler

\* copy_loop with currentIndex < currentSize, then copy_body: one element is
\* loaded from the array and stored in the new block
AppendCopy ==
    /\ rt.phase = "copy_loop"
    /\ rt.index < rt.currentSize
    /\ rt' = [rt EXCEPT !.heap = StoreBytes(rt.heap,
                                            CopyDestination(rt.newDataPtr, rt.index),
                                            LoadBytes(rt.heap, GEP(rt.value, rt.index))),
                        !.index = @ + 1]
    /\ UNCHANGED Compiler

\* copy_loop with currentIndex >= currentSize, then copy_end: newValue is
\* stored behind the copied elements and newDataPtr is the value of the call
AppendEnd ==
    /\ rt.phase = "copy_loop"
    /\ rt.index >= rt.currentSize
    /\ rt' = [rt EXCEPT !.phase = "copy_end",
                        !.heap = StoreBytes(rt.heap, GEP(rt.newDataPtr, rt.currentSize),
                                            rt.newValue),
                        !.result = Defined(rt.newDataPtr)]
    /\ UNCHANGED Compiler

NextArray ==
    \/ LenEntry
    \/ LenArray
    \/ LenString
    \/ AppendEntry
    \/ AppendCopy
    \/ AppendEnd

SpecArray == InitArray /\ [][NextArray]_vars

(***************************************************************************)
(* Properties.                                                             *)
(***************************************************************************)
\* the names visit(Program*) enters in the function table in its first loop
TopLevelFunctions ==
    {ast.statements[i].name :
        i \in {j \in DOMAIN ast.statements : ast.statements[j].k = "FunctionDeclaration"}}

\* C1: every emission error is fatal: when generate has returned from a run
\* in which an emission error was thrown or reported (undefined variable or
\* function, unknown operator, built-in arity or argument kind), it has
\* returned false.
C1_EmissionErrorIsFatal ==
    (pc = "generated" /\ ~cg.ub /\ (cg.err.kind # "none" \/ cg.cerr # <<>>))
        => genResult = "false"

\* C2: the driver runs lex, parse and emit in this order and writes the IR
\* file only after parse returned a Program and generate returned true; when
\* there is no Program or generate returned false, no IR file is written and
\* the exit status is nonzero.
C2_DriverOrder ==
    /\ ast # NoProgram => tokens # <<>>
    /\ cg # NoCodeGenerator => ast # NoProgram
    /\ genResult # "none" => cg # NoCodeGenerator
    /\ irFile # "absent" => genResult = "true" /\ ast # NoProgram
    /\ (pc = "done" /\ (ast = NoProgram \/ genResult = "false"))
          => irFile = "absent" /\ exitCode # "0"

\* C2 witness: generate returned false, main returned 1 and no IR file exists
C2_GenerateFailedExit ==
    pc = "done" /\ genResult = "false" /\ irFile = "absent" /\ exitCode = "1"

\* C3: no basic block holds an instruction after a terminator (a return
\* reached in a block that already has a terminator emits nothing), and when
\* generate has returned every block of a function ends with a terminator.
C3_OneTerminatorPerBlock ==
    cg # NoCodeGenerator =>
        \A b \in DOMAIN cg.blocks :
            /\ \A i \in 1..(Len(cg.blocks[b].instrs) - 1) :
                  cg.blocks[b].instrs[i].op \notin Terminators
            /\ (pc = "generated" /\ ~Stopped(cg)) => getTerminator(cg, b)

\* C4: every variable load or store emitted into a function uses a slot
\* allocated in that function.
C4_SlotOfEmittingFunction ==
    cg # NoCodeGenerator =>
        \A b \in DOMAIN cg.blocks :
            \A i \in DOMAIN cg.blocks[b].instrs :
                cg.blocks[b].instrs[i].op \in {"load", "store"}
                    => cg.slots[cg.blocks[b].instrs[i].slot].fn = cg.blocks[b].fn

\* C5: every read and assignment of a name resolves to the innermost open
\* block whose text declares it, and to no binding when no open block
\* declares it (a block that has ended shadows and binds nothing).
C5_InnermostBinding ==
    cg # NoCodeGenerator =>
        \A i \in DOMAIN cg.accesses :
            IF cg.accesses[i].cands = {}
            THEN cg.accesses[i].scope = 0
            ELSE /\ cg.accesses[i].scope \in cg.accesses[i].cands
                 /\ \A id \in cg.accesses[i].cands : id <= cg.accesses[i].scope

\* C5 witness: a name declared in an outer block and in an inner block that
\* has ended was looked up and resolved to the outer binding
C5_ShadowEnded ==
    /\ cg # NoCodeGenerator
    /\ \E i \in DOMAIN cg.accesses :
          /\ cg.accesses[i].cands # {}
          /\ cg.accesses[i].ended # {}
          /\ cg.accesses[i].scope \in cg.accesses[i].cands

\* C6: a load of a name that follows setVariable(name, v) in the same or a
\* descendant scope, with no assignment or declaration of the name between
\* them, has the type of v.
C6_LoadTypeIsLastSet ==
    cg # NoCodeGenerator =>
        \A i \in DOMAIN cg.accesses :
            (cg.accesses[i].kind = "load" /\ cg.accesses[i].expect # "any")
                => cg.accesses[i].ty = cg.accesses[i].expect

\* C6 witness: a name was assigned a value of another type than its slot, so
\* that setVariable redirected it to a new slot, and was read afterwards
C6_ReadAfterRedirect ==
    /\ cg # NoCodeGenerator
    /\ \E i \in DOMAIN cg.accesses :
          /\ cg.accesses[i].kind = "load"
          /\ cg.accesses[i].expect = cg.accesses[i].ty
          /\ \E s \in DOMAIN cg.slots :
                /\ cg.slots[s].name = cg.accesses[i].name \o "_new"
                /\ cg.slots[s].ty = cg.accesses[i].ty

\* C7: while statements are emitted every top-level function declaration is
\* in the function table, and no call of a top-level function fails with
\* UndefinedFunction.
C7_TopLevelFunctionsDeclared ==
    pc = "emit" =>
        /\ cg.err.kind = "none" => TopLevelFunctions \subseteq DOMAIN cg.functions
        /\ cg.err.kind = "UndefinedFunction" => cg.err.name \notin TopLevelFunctions

\* C7 witness: a call of a function declared by a later statement has been
\* emitted without an error
C7_ForwardCallEmitted ==
    /\ pc = "emit"
    /\ stmtIndex = 2
    /\ Len(ast.statements) >= 2
    /\ ast.statements[2].k = "FunctionDeclaration"
    /\ ~Stopped(cg)
    /\ \E b \in DOMAIN cg.blocks : \E i \in DOMAIN cg.blocks[b].instrs :
          /\ cg.blocks[b].instrs[i].op = "call"
          /\ cg.blocks[b].instrs[i].name = ast.statements[2].name

\* C8: print of a pointer-typed value writes a boxed number with "%f\n" and a
\* C string with "%s\n".
C8_PrintClassifiesPointer ==
    (rt.op = "print" /\ rt.phase = "print_merge")
        => rt.out = [defined |-> TRUE,
                     text |-> IF rt.kind = "boxed" THEN FormatF(rt.num) ELSE FormatS(rt.mem)]

\* C9: a source with array literals, index expressions and index
\* assignments parses with no diagnostic.
C9_ArraysParse ==
    (pc = "parsed" /\ \E i \in DOMAIN tokens : tokens[i].type = "LEFT_BRACKET")
        => parser.diags = <<>>

\* C10: parse returns no Program when the token stream is not empty before
\* the end of file and no statement of it parsed completely.
C10_NoStatementNoProgram ==
    (pc = "parsed" /\ Len(tokens) > 1 /\ parser.statements = <<>>) => ast = NoProgram

\* C11: every recovery resumes at the first cursor, searching from the
\* offending token, whose token is a statement keyword or follows a `;` that
\* the search passed (or at the end of file when there is none).
C11_RecoveryResumesAtFirstStart ==
    \A i \in DOMAIN parser.recoveries :
        LET r == parser.recoveries[i]
            Resumes(c) ==
                \/ PIsAtEnd(tokens, c)
                \/ PPeek(tokens, c).type \in StatementKeywords
                \/ (c > r.from /\ tokens[c].type = "SEMICOLON")
        IN  /\ Resumes(r.to)
            /\ \A c \in r.from..(r.to - 1) : ~Resumes(c)

OperatorLevel(op) ==
    CASE op = "||" -> 1
      [] op = "&&" -> 2
      [] op \in {"==", "!="} -> 3
      [] op \in {"<", "<=", ">", ">="} -> 4
      [] op \in {"+", "-"} -> 5
      [] op \in {"*", "/", "%"} -> 6

\* how tightly the root of an expression binds: assignment 0, a binary
\* operator its level, a unary operator 7, an operand 8
Rank(node) ==
    CASE node.k = "AssignmentExpression" -> 0
      [] node.k = "BinaryExpression" -> OperatorLevel(node.op)
      [] node.k = "UnaryExpression" -> 7
      [] OTHER -> 8

\* the lexemes of an expression without parentheses and calls, left to right
RECURSIVE InOrder(_)
InOrder(node) ==
    CASE node.k = "AssignmentExpression" -> <<node.name, "=">> \o InOrder(node.value)
      [] node.k = "BinaryExpression" ->
            InOrder(node.left) \o <<node.op>> \o InOrder(node.right)
      [] node.k = "UnaryExpression" -> <<node.op>> \o InOrder(node.operand)
      [] node.k = "Identifier" -> <<node.name>>
      [] OTHER -> <<node.k>>

\* a binary operator's left operand binds at least as tightly as the
\* operator and its right operand more tightly (left-associative); the
\* operand of a unary operator is a unary expression or an operand; the
\* value of an assignment is any expression (right-associative)
RECURSIVE FollowsPrecedence(_)
FollowsPrecedence(node) ==
    CASE node.k = "AssignmentExpression" -> FollowsPrecedence(node.value)
      [] node.k = "BinaryExpression" ->
            /\ Rank(node.left) >= OperatorLevel(node.op)
            /\ Rank(node.right) > OperatorLevel(node.op)
            /\ FollowsPrecedence(node.left)
            /\ FollowsPrecedence(node.right)
      [] node.k = "UnaryExpression" ->
            /\ Rank(node.operand) >= 7
            /\ FollowsPrecedence(node.operand)
      [] OTHER -> TRUE

\* C13: a statement of identifiers and operators that parses without a
\* diagnostic yields the one tree that has the tokens in order and follows
\* the precedence levels, binary operators left-associative and assignment
\* right-associative; the four expressions the grammar names.
C13_PrecedenceAndAssociativity ==
    pc = "parsed" =>
        /\ ( /\ parser.diags = <<>>
             /\ Len(tokens) >= 3
             /\ tokens[Len(tokens) - 1].type = "SEMICOLON"
             /\ \A i \in 1..(Len(tokens) - 2) :
                    tokens[i].type \in (UNION {BinaryLevelOps[l] : l \in DOMAIN BinaryLevelOps}
                                            \cup {"IDENTIFIER", "ASSIGN", "LOGICAL_NOT"}) )
           => /\ Len(ast.statements) = 1
              /\ ast.statements[1].k = "ExpressionStatement"
              /\ InOrder(ast.statements[1].expression)
                    = [i \in 1..(Len(tokens) - 2) |-> tokens[i].value]
              /\ FollowsPrecedence(ast.statements[1].expression)
        /\ source = "1 + 2 * 3;" =>
              ast.statements = <<ExpressionStatement(
                  BinaryExpression(NumberLiteral(stod("1")), "+",
                      BinaryExpression(NumberLiteral(stod("2")), "*",
                                       NumberLiteral(stod("3")))))>>
        /\ source = "1 * 2 + 3;" =>
              ast.statements = <<ExpressionStatement(
                  BinaryExpression(
                      BinaryExpression(NumberLiteral(stod("1")), "*",
                                       NumberLiteral(stod("2"))),
                      "+", NumberLiteral(stod("3"))))>>
        /\ source = "a - b - c;" =>
              ast.statements = <<ExpressionStatement(
                  BinaryExpression(
                      BinaryExpression(Identifier("a"), "-", Identifier("b")),
                      "-", Identifier("c")))>>
        /\ source = "a = b = c;" =>
              ast.statements = <<ExpressionStatement(
                  AssignmentExpression("a",
                      AssignmentExpression("b", Identifier("c"))))>>

\* an expression that mixes unary, multiplicative, additive, comparison and
\* logical operators has parsed without a diagnostic
C13_MixedLevelsParsed ==
    /\ pc = "parsed"
    /\ parser.diags = <<>>
    /\ Len(ast.statements) = 1
    /\ ast.statements[1].k = "ExpressionStatement"
    /\ LET e == ast.statements[1].expression
       IN  /\ e.k = "BinaryExpression"
           /\ e.op = "<"
           /\ e.right.k = "BinaryExpression"
           /\ e.right.op = "+"
           /\ e.right.right.k = "BinaryExpression"
           /\ e.right.right.op = "*"
           /\ e.right.right.right.k = "UnaryExpression"

\* C14: tokenize terminates and returns the tokens in source order, ended by
\* the only END_OF_FILE token.  The offset stays within the source and every
\* pass of the loop that pushes another token moves it forward, so the loop
\* makes at most Len(source) + 1 passes; every token starts behind the one
\* before it; no END_OF_FILE token is pushed before the last pass, and the
\* last pass pushes one.
C14_TokenizeTerminates ==
    /\ [][(pc = "lex" /\ pc' = "lex") => lexer'.current > lexer.current]_vars
    /\ [](pc \in {"lex", "parse"} =>
            /\ lexer.current <= Len(source)
            /\ \A i \in 1..(Len(tokens) - 1) :
                  /\ tokens[i].type # "END_OF_FILE"
                  /\ \/ tokens[i].line < tokens[i + 1].line
                     \/ /\ tokens[i].line = tokens[i + 1].line
                        /\ tokens[i].column < tokens[i + 1].column)
    /\ [](pc = "lex" => \A i \in DOMAIN tokens : tokens[i].type # "END_OF_FILE")
    /\ [](pc = "parse" =>
            /\ Len(tokens) >= 1
            /\ tokens[Len(tokens)].type = "END_OF_FILE"
            /\ lexer.current = Len(source))

\* tokenize has returned for a string that is not terminated and ends in a
\* backslash
C14_UnterminatedStringLexed ==
    /\ pc = "parse"
    /\ source = "\"ab\\"
    /\ lexer.errors = 1
    /\ Len(tokens) = 2

\* the 1-based line of the byte at 1-based offset i of s: one more than the
\* number of line feeds before it
LineOf(s, i) == 1 + Cardinality({j \in 1..(i - 1) : SubSeq(s, j, j) = "\n"})

\* its 1-based column: the distance from the last line feed before it, or
\* from the beginning of s
ColumnOf(s, i) ==
    LET feeds == {j \in 1..(i - 1) : SubSeq(s, j, j) = "\n"}
    IN  i - (IF feeds = {} THEN 0 ELSE CHOOSE j \in feeds : \A k \in feeds : k <= j)

\* the line and column of tok are those of a byte of s, and that byte is in bytes
PointsAt(s, tok, bytes) ==
    \E i \in 1..Len(s) :
        /\ LineOf(s, i) = tok.line
        /\ ColumnOf(s, i) = tok.column
        /\ SubSeq(s, i, i) \in bytes

\* C15 (as stated): the line and column of every token with a non-empty
\* lexeme are those of a source byte that equals the first byte of the
\* lexeme, string literals included.
C15_PositionIsFirstByte ==
    \A i \in DOMAIN tokens :
        tokens[i].value # "" =>
            PointsAt(source, tokens[i], {SubSeq(tokens[i].value, 1, 1)})

\* C15 (amended): the line and column of every token with a non-empty
\* lexeme that is not a string literal are those of a source byte that
\* equals the first byte of the lexeme; the line and column of a string
\* literal are those of its opening quote.
C15_PositionIsFirstByteOrQuote ==
    \A i \in DOMAIN tokens :
        tokens[i].value # "" =>
            PointsAt(source, tokens[i],
                     IF tokens[i].type = "STRING"
                     THEN {"\"", "'"}
                     ELSE {SubSeq(tokens[i].value, 1, 1)})

\* an identifier and, on the second line, a string literal have been lexed
C15_TokensOnSecondLine ==
    /\ pc = "parse"
    /\ \E i \in DOMAIN tokens :
          /\ tokens[i].type = "STRING"
          /\ tokens[i].value = "y z"
          /\ tokens[i].line = 2
          /\ tokens[i].column = 3
    /\ \E i \in DOMAIN tokens :
          /\ tokens[i].type = "IDENTIFIER"
          /\ tokens[i].value = "f"

\* the lexemes of toks, concatenated in order
RECURSIVE Lexemes(_)
Lexemes(toks) ==
    IF toks = <<>> THEN "" ELSE Head(toks).value \o Lexemes(Tail(toks))

\* the offset of the quote q that closes a string literal whose text starts
\* at offset j of s, a backslash taking the byte after it along; Len(s) + 1
\* when the literal is not closed
RECURSIVE ClosingQuote(_, _, _)
ClosingQuote(s, j, q) ==
    IF j > Len(s) THEN Len(s) + 1
    ELSE IF SubSeq(s, j, j) = q THEN j
    ELSE IF SubSeq(s, j, j) = "\\" THEN ClosingQuote(s, j + 2, q)
    ELSE ClosingQuote(s, j + 1, q)

\* the text of s from offset i with white space and comments removed; a
\* string literal is kept as it is written
RECURSIVE Stripped(_, _)
Stripped(s, i) ==
    IF i > Len(s) THEN ""
    ELSE LET c == SubSeq(s, i, i)
             next == IF i < Len(s) THEN SubSeq(s, i + 1, i + 1) ELSE ""
             feeds == {j \in i..Len(s) : SubSeq(s, j, j) = "\n"}
             closes == {j \in (i + 2)..(Len(s) - 1) : SubSeq(s, j, j + 1) = "*/"}
             first(set) == CHOOSE j \in set : \A k \in set : j <= k
         IN  CASE c \in {" ", "\t", "\r", "\n"} -> Stripped(s, i + 1)
               [] c = "/" /\ next = "/" ->
                    IF feeds = {} THEN "" ELSE Stripped(s, first(feeds))
               [] c = "/" /\ next = "*" ->
                    IF closes = {} THEN "" ELSE Stripped(s, first(closes) + 2)
               [] c \in {"\"", "'"} ->
                    LET close == ClosingQuote(s, i + 1, c)
                    IN  IF close > Len(s) THEN SubSeq(s, i, Len(s))
                        ELSE SubSeq(s, i, close) \o Stripped(s, close + 1)
               [] OTHER -> c \o Stripped(s, i + 1)

\* C16 (as stated): the lexemes of a source that lexes without a diagnostic,
\* concatenated, are the source without its white space and comments,
\* string literals included.
C16_LexemesAreSource ==
    (pc = "parse" /\ lexer.errors = 0) => Lexemes(tokens) = Stripped(source, 1)

\* C16 (amended): the same for a source that lexes without a diagnostic and
\* has no string literal.
C16_LexemesAreSourceWithoutStrings ==
    ( /\ pc = "parse"
      /\ lexer.errors = 0
      /\ \A i \in DOMAIN tokens : tokens[i].type # "STRING" )
        => Lexemes(tokens) = Stripped(source, 1)

\* a source with white space, a number with a fraction and a line comment
\* has been lexed without a diagnostic
C16_CommentedSourceLexed ==
    /\ pc = "parse"
    /\ lexer.errors = 0
    /\ source = "x = 1.5; // c\ny"
    /\ Lexemes(tokens) = "x=1.5;y"

\* the kinds and lexemes of toks
KindsAndLexemes(toks) ==
    [i \in DOMAIN toks |-> <<toks[i].type, toks[i].value>>]

C18_AllocasInEntryBlock ==
    cg # NoCodeGenerator =>
        \A b \in DOMAIN cg.blocks :
            \A i \in DOMAIN cg.blocks[b].instrs :
                cg.blocks[b].instrs[i].op = "alloca" => b = cg.fns[cg.blocks[b].fn].entry

\* C19: every emission of a Block statement leaves the scope stack as deep
\* as it found it, whether it returns or an emission error passes through it.
C19_BlockRestoresScopeDepth ==
    cg # NoCodeGenerator =>
        \A i \in DOMAIN cg.blockExits :
            cg.blockExits[i].depthAfter = cg.blockExits[i].depthBefore

\* C20: when the emission of a function declaration ends, because the
\* function verified or because the verifier rejected it, the insertion
\* block, the current function and the depth of the scope stack are the ones
\* from before the declaration; a rejected function is erased and is not in
\* the function table.
C20_FunctionDeclarationRestores ==
    cg # NoCodeGenerator =>
        \A i \in DOMAIN cg.functionExits :
            LET x == cg.functionExits[i]
            IN  /\ x.blockAfter = x.blockBefore
                /\ x.functionAfter = x.functionBefore
                /\ x.depthAfter = x.depthBefore
                /\ x.rejected =>
                      /\ cg.fns[x.function].erased
                      /\ \A n \in DOMAIN cg.functions : cg.functions[n] # x.function

\* the verifier has rejected a function, after another one verified
C20_RejectedAfterVerified ==
    /\ cg # NoCodeGenerator
    /\ \E i, j \in DOMAIN cg.functionExits :
          /\ i < j
          /\ ~cg.functionExits[i].rejected
          /\ cg.functionExits[j].rejected
          /\ cg.functionExits[j].blockBefore # 0

\* C21: len returns the byte length of a string and the stored count of an
\* array.
C21_LenIsLength ==
    (rt.phase = "len_merge")
        => rt.result = Defined(IF rt.kind = "string" THEN Len(rt.text)
                               ELSE Len(rt.elements))

\* C22: append returns a new array with the count of the array plus one,
\* the elements of the array in order and the appended value behind them;
\* the block of the array itself is as it was.
C22_AppendCopiesAndAdds ==
    (rt.phase = "copy_end") =>
        LET n == Len(rt.elements)
        IN  /\ rt.result.defined
            /\ rt.result.value # rt.value
            /\ LoadBytes(rt.heap, GEP(rt.result.value, -1)) = DoubleBytes(n + 1)
            /\ \A i \in 0..(n - 1) :
                  LoadBytes(rt.heap, GEP(rt.result.value, i)) = rt.elements[i + 1]
            /\ LoadBytes(rt.heap, GEP(rt.result.value, n)) = rt.newValue
            /\ SubSeq(rt.heap, 1, 8 * (n + 1)) = ArrayBlock(rt.elements)

\* append has returned for an array of two different elements
C22_AppendReturned ==
    /\ rt.phase = "copy_end"
    /\ Len(rt.elements) = 2
    /\ rt.elements[1] # rt.elements[2]
    /\ rt.newValue = ThreeTenths

\* C23: every conditional branch the emitter creates for a condition
\* receives an i1.
C23_ConditionIsBoolean ==
    cg # NoCodeGenerator =>
        \A b \in DOMAIN cg.blocks :
            \A i \in DOMAIN cg.blocks[b].instrs :
                cg.blocks[b].instrs[i].op = "condbr" => ~cg.blocks[b].instrs[i].bad

\* a top-level expression statement whose expression is a && b or a || b
IsLogicalStatement(node) ==
    /\ node.k = "ExpressionStatement"
    /\ node.expression.k = "BinaryExpression"
    /\ node.expression.op \in {"&&", "||"}

\* the names of the functions called in a block, in the order of the calls
CallNames(instrs) ==
    LET calls == SelectSeq(instrs, LAMBDA ins : ins.op = "call")
    IN  [i \in DOMAIN calls |-> calls[i].name]

\* a call of a function the program declares
IsUserCall(node) == node.k = "CallExpression" /\ node.name \notin InlineBuiltins

\* C24: for a && b and a || b the code of both operands is emitted
\* unconditionally, the left one first: the state after the statement is the
\* state after the left operand and then the right one were emitted, with
\* nothing added but value operations at the insertion point (no block, no
\* branch); when both operands are calls of user functions, the two calls are
\* in one block, the left one first
C24_BothOperandsEmitted ==
    [][(pc = "emit" /\ stmtIndex' = stmtIndex + 1
           /\ IsLogicalStatement(ast.statements[stmtIndex])) =>
         LET node == ast.statements[stmtIndex].expression
             l == Evaluate(cg, node.left)
             r == Evaluate(l.st, node.right)
             b == r.st.insertBlock
             n == Len(r.st.blocks[b].instrs)
         IN  ~Stopped(r.st) =>
               /\ ~Stopped(cg')
               /\ Len(cg'.blocks) = Len(r.st.blocks)
               /\ cg'.insertBlock = b
               /\ \A k \in DOMAIN r.st.blocks : k # b => cg'.blocks[k] = r.st.blocks[k]
               /\ SubSeq(cg'.blocks[b].instrs, 1, n) = r.st.blocks[b].instrs
               /\ \A i \in (n + 1)..Len(cg'.blocks[b].instrs) :
                      cg'.blocks[b].instrs[i].op = "op"
               /\ (IsUserCall(node.left) /\ IsUserCall(node.right)) =>
                      CallNames(cg'.blocks[b].instrs) =
                          CallNames(cg.blocks[b].instrs) \o <<node.left.name, node.right.name>>
      ]_vars

\* a statement f() && g() or g() || f() over two declared functions was emitted
C24_TwoCallsEmitted ==
    /\ pc = "emit"
    /\ ~Stopped(cg)
    /\ \E i \in 1..(stmtIndex - 1) :
           /\ IsLogicalStatement(ast.statements[i])
           /\ IsUserCall(ast.statements[i].expression.left)
           /\ IsUserCall(ast.statements[i].expression.right)
           /\ ast.statements[i].expression.left.name # ast.statements[i].expression.right.name

\* C25: the emitter never reads or pops the top of an empty value stack, and
\* every top-level statement leaves the value stack at the depth it had
\* before the statement (empty)
C25_ValueStackNeverUnderflows ==
    cg # NoCodeGenerator => ~cg.underflow /\ (~Stopped(cg) => cg.valueStack = <<>>)

\* the functions of the module that were created for a function declaration
\* of the program under the name of an inline-lowered built-in
ShadowingFunctions(st) ==
    {f \in DOMAIN st.fns : st.fns[f].linkage = "Internal" /\ st.fns[f].name \in InlineBuiltins}

\* C26: a call whose callee name is an inline-lowered built-in is lowered as
\* the built-in even when the program declares a function of that name: no
\* call instruction of the module calls such a function
C26_BuiltinNameNeverCallsUserFunction ==
    cg # NoCodeGenerator =>
        \A b \in DOMAIN cg.blocks : \A i \in DOMAIN cg.blocks[b].instrs :
            cg.blocks[b].instrs[i].op = "call"
                => cg.blocks[b].instrs[i].slot \notin ShadowingFunctions(cg)

\* a program that declares a function under a built-in name and calls that
\* name in a top-level statement was emitted whole
C26_ShadowedBuiltinCalled ==
    /\ pc = "generated"
    /\ ~Stopped(cg)
    /\ \E i \in DOMAIN ast.statements :
           /\ ast.statements[i].k = "ExpressionStatement"
           /\ ast.statements[i].expression.k = "CallExpression"
           /\ \E f \in ShadowingFunctions(cg) :
                  /\ cg.fns[f].name = ast.statements[i].expression.name
                  /\ ~cg.fns[f].erased

\* C27: every load of a variable is preceded, on every control-flow path of
\* its function that leads to it, by a store to the slot it loads from
C27_LoadsFollowStores ==
    cg # NoCodeGenerator =>
        \A l \in cg.unstoredLoads : cg.slots[l.slot].fn # cg.blocks[l.block].fn

\* C28: no pointer a user function returns refers to a stack buffer of the
\* returning function (an alloca of the function that executes the return)
C28_ReturnedPointersOutliveFrame ==
    cg # NoCodeGenerator => \A r \in cg.returned : r.prov # "alloca"

\* the number of blocks open at the parser position cur: the `{` among the
\* first cur tokens that no later `}` among them closes
RECURSIVE BraceDepth(_, _)
BraceDepth(t, cur) ==
    IF cur = 0 THEN 0
    ELSE IF t[cur].type = "LEFT_BRACE" THEN BraceDepth(t, cur - 1) + 1
    ELSE IF t[cur].type = "RIGHT_BRACE" /\ BraceDepth(t, cur - 1) > 0
    THEN BraceDepth(t, cur - 1) - 1
    ELSE BraceDepth(t, cur - 1)

\* C29: every statement of the Program returned by parse() is a top-level
\* statement of the source: a statement parseProgram adds to its list begins
\* at a token that lies in no open block
C29_ProgramStatementsAreTopLevel ==
    [][Len(parser'.statements) > Len(parser.statements)
           => BraceDepth(tokens, parser.current) = 0]_vars

\* C30: when the parser reported at least one diagnostic, the driver writes
\* no IR file and does not exit with status 0
C30_DiagnosticsStopTheDriver ==
    parser.diags # <<>> => irFile = "absent" /\ exitCode # "0"

=============================================================================
